---- MODULE Spec2Model ----
(***************************************************************************)
(* Model of the PayPay -> MoneyForward ME CSV conversion pipeline          *)
(* (csv-processor.ts): parseDate, updateDateRange, createMfmeExclusionSet,  *)
(* extractTransactionsFromPayPayCsv, filterTransactions and                 *)
(* createChunksFromGroupedRecords.                                          *)
(*                                                                         *)
(* Strings are sequences of one-character strings, so that template        *)
(* literals, split, replace, trim and the combined-payment regular         *)
(* expression are computed character by character.  The yen sign of the    *)
(* source ("en" in "(93en)") is written "Y".  The Japanese column labels   *)
(* are written as ASCII names (see the Col... definitions).                *)
(***************************************************************************)
EXTENDS Integers, Sequences, FiniteSets, TLC

VARIABLES
  payPayCsv,       \* the source export handed to extractTransactionsFromPayPayCsv
  mfmeCsvs,        \* the aggregator exports handed to createMfmeExclusionSet
  extracted,       \* result of extractTransactionsFromPayPayCsv, or Pending
  exclusion,       \* result of createMfmeExclusionSet, or Pending
  filtered,        \* result of filterTransactions, or Pending
  refiltered,      \* result of filterTransactions called a second time on the
                   \* same two objects, or Pending
  chunks,          \* result of createChunksFromGroupedRecords, or Pending; the
                   \* caller holds it and may mark its chunks as imported
  rechunked,       \* result of createChunksFromGroupedRecords called again while
                   \* the caller holds the earlier chunks, or Pending
  objects,         \* the row objects of one combined-payment record taken on
                   \* their own: the heap, the parsed record's and the sibling
                   \* rows' addresses, and the writes made since, or Pending
  dateCall,        \* the last call of parseDate or updateDateRange made on its
                   \* own: its arguments and what it returned, or NoCall
  ui               \* the upload step of the page taken on its own: the state
                   \* of Step1PayPayUpload, the data its parent was last
                   \* handed, and the file reads in flight, or Pending

vars == <<payPayCsv, mfmeCsvs, extracted, exclusion, filtered, refiltered, chunks,
         rechunked, objects, dateCall, ui>>

----------------------------------------------------------------------------
(* Values *)

\* JavaScript undefined (a column the header does not have)
Undef == <<"undefined">>

\* JavaScript null (Date | null)
Null == [null |-> TRUE]

\* a call ended by an exception
Threw == [threw |-> TRUE]

\* a stage that has not run yet
Pending == [pending |-> TRUE]

\* no call of a date function made on its own yet
NoCall == [fn |-> "none"]

Range(s) == {s[i] : i \in 1..Len(s)}

\* TLC keeps a function written [x \in S |-> e] unevaluated; these are the
\* same sequence and the same function, evaluated once
Tuple(f) == SubSeq(f, 1, Len(f))

Fcn(f) == f @@ <<>>

Min(S) == CHOOSE x \in S : \A y \in S : x <= y

Max(S) == CHOOSE x \in S : \A y \in S : x >= y

Digits == {"0", "1", "2", "3", "4", "5", "6", "7", "8", "9"}

DigitVal(c) ==
  CASE c = "0" -> 0 [] c = "1" -> 1 [] c = "2" -> 2 [] c = "3" -> 3
    [] c = "4" -> 4 [] c = "5" -> 5 [] c = "6" -> 6 [] c = "7" -> 7
    [] c = "8" -> 8 [] c = "9" -> 9

\* `${v}` : a template literal prints undefined as the word "undefined"
TemplateStr(v) ==
  IF v = Undef THEN <<"u", "n", "d", "e", "f", "i", "n", "e", "d">> ELSE v

\* !v for v : string | undefined
Falsy(v) == v = Undef \/ v = <<>>

\* s.replace(/c/g, d) for one-character c and a string d
ReplaceAll(s, c, d) ==
  LET F[i \in 0..Len(s)] ==
        IF i = 0 THEN <<>>
        ELSE F[i - 1] \o (IF s[i] = c THEN d ELSE <<s[i]>>)
  IN  F[Len(s)]

\* s.includes(c)
Includes(s, c) == \E i \in 1..Len(s) : s[i] = c

\* index of the first c in s, 0 when there is none
IndexOf(s, c) ==
  IF Includes(s, c) THEN Min({i \in 1..Len(s) : s[i] = c}) ELSE 0

\* s.replace(c, d) : only the first occurrence
ReplaceFirst(s, c, d) ==
  LET i == IndexOf(s, c)
  IN  IF i = 0 THEN s
      ELSE SubSeq(s, 1, i - 1) \o d \o SubSeq(s, i + 1, Len(s))

\* s.split(c)[0]
SplitFirst(s, c) ==
  LET i == IndexOf(s, c)
  IN  IF i = 0 THEN s ELSE SubSeq(s, 1, i - 1)

\* s.trim()
Trim(s) ==
  LET ns == {i \in 1..Len(s) : s[i] # " "}
  IN  IF ns = {} THEN <<>> ELSE SubSeq(s, Min(ns), Max(ns))

----------------------------------------------------------------------------
(* Date Normalizer *)

AllDigits(s) == \A i \in 1..Len(s) : s[i] \in Digits

Num(s) ==
  LET F[i \in 0..Len(s)] ==
        IF i = 0 THEN 0 ELSE 10 * F[i - 1] + DigitVal(s[i])
  IN  F[Len(s)]

\* days from 1970-01-01 to the civil date y-m-d (proleptic Gregorian)
DaysFromCivil(y, m, d) ==
  LET yy  == IF m <= 2 THEN y - 1 ELSE y
      era == yy \div 400
      yoe == yy - era * 400
      mp  == IF m > 2 THEN m - 3 ELSE m + 9
      doy == (153 * mp + 2) \div 5 + d - 1
      doe == yoe * 365 + yoe \div 4 - yoe \div 100 + doy
  IN  era * 146097 + doe - 719468

IsLeap(y) == (y % 4 = 0 /\ y % 100 # 0) \/ y % 400 = 0

DaysInMonth(y, m) ==
  IF m = 2 THEN (IF IsLeap(y) THEN 29 ELSE 28)
  ELSE IF m \in {4, 6, 9, 11} THEN 30 ELSE 31

\* The Date Time String Format of ECMAScript, as far as the code can build
\* it: a date YYYY, YYYY-MM or YYYY-MM-DD, "T", a time HH:mm or HH:mm:ss, and
\* the offset "+09:00".  DateFields and TimeFields give <<y, m, d>> and
\* <<h, mi, s>>, or <<>> for a part that has none of these forms.
DateFields(d) ==
  IF Len(d) = 4 /\ AllDigits(d) THEN <<Num(d), 1, 1>>
  ELSE IF /\ Len(d) = 7 /\ AllDigits(SubSeq(d, 1, 4)) /\ d[5] = "-"
          /\ AllDigits(SubSeq(d, 6, 7))
  THEN <<Num(SubSeq(d, 1, 4)), Num(SubSeq(d, 6, 7)), 1>>
  ELSE IF /\ Len(d) = 10 /\ AllDigits(SubSeq(d, 1, 4)) /\ d[5] = "-"
          /\ AllDigits(SubSeq(d, 6, 7)) /\ d[8] = "-"
          /\ AllDigits(SubSeq(d, 9, 10))
  THEN <<Num(SubSeq(d, 1, 4)), Num(SubSeq(d, 6, 7)), Num(SubSeq(d, 9, 10))>>
  ELSE <<>>

TimeFields(t) ==
  IF /\ Len(t) = 5 /\ AllDigits(SubSeq(t, 1, 2)) /\ t[3] = ":"
     /\ AllDigits(SubSeq(t, 4, 5))
  THEN <<Num(SubSeq(t, 1, 2)), Num(SubSeq(t, 4, 5)), 0>>
  ELSE IF /\ Len(t) = 8 /\ AllDigits(SubSeq(t, 1, 2)) /\ t[3] = ":"
          /\ AllDigits(SubSeq(t, 4, 5)) /\ t[6] = ":"
          /\ AllDigits(SubSeq(t, 7, 8))
  THEN <<Num(SubSeq(t, 1, 2)), Num(SubSeq(t, 4, 5)), Num(SubSeq(t, 7, 8))>>
  ELSE <<>>

\* the fields <<y, m, d, h, mi, s>> of a string of the format, else <<>>
DateTimeFields(str) ==
  LET n    == Len(str)
      body == SubSeq(str, 1, n - 6)
      t    == IndexOf(body, "T")
  IN  IF n >= 6 /\ SubSeq(str, n - 5, n) = <<"+", "0", "9", ":", "0", "0">> /\ t > 0
      THEN LET d  == DateFields(SubSeq(body, 1, t - 1))
               tm == TimeFields(SubSeq(body, t + 1, Len(body)))
           IN  IF d # <<>> /\ tm # <<>> THEN d \o tm ELSE <<>>
      ELSE <<>>

\* the time of day is one of the format: 00:00:00 to 23:59:59, or 24:00:00
TimeInRange(f) ==
  \/ f[4] \in 0..23 /\ f[5] \in 0..59 /\ f[6] \in 0..59
  \/ f[4] = 24 /\ f[5] = 0 /\ f[6] = 0

\* the Date of the fields read as if the offset were +00:00
DateOfFieldsUTC(f) ==
  [time |-> (DaysFromCivil(f[1], f[2], 1) + f[3] - 1) * 86400
              + f[4] * 3600 + f[5] * 60 + f[6]]

\* the Date of the fields, taken at the offset +09:00; a Date is written
\* [time |-> t], t its time value in seconds since the epoch (the format
\* modelled has no fraction); the day is counted from the first of the month
DateOfFields(f) ==
  [time |-> (DaysFromCivil(f[1], f[2], 1) + f[3] - 1) * 86400
              + f[4] * 3600 + f[5] * 60 + f[6] - 9 * 3600]

\* new Date(str): an invalid Date (time value NaN) is written Null, which is
\* what parseDate makes of it (line 46).  This is the value for the strings on
\* which the engines agree; for a day of 29 to 31 that the month does not
\* have, see NewDateOutcomes.
NewDate(str) ==
  LET f == DateTimeFields(str)
  IN  IF /\ f # <<>>
         /\ f[2] \in 1..12 /\ f[3] \in 1..DaysInMonth(f[1], f[2])
         /\ TimeInRange(f)
      THEN DateOfFields(f)
      ELSE Null

\* the values new Date(str) has on the engines: for a day from 29 to 31 that
\* the month does not have, V8 counts on into the next month, where others
\* give an invalid Date
NewDateOutcomes(str) ==
  LET f == DateTimeFields(str)
  IN  IF /\ f # <<>>
         /\ f[2] \in 1..12 /\ f[3] \in (DaysInMonth(f[1], f[2]) + 1)..31
         /\ TimeInRange(f)
      THEN {Null, DateOfFields(f)}
      ELSE {NewDate(str)}

\* the string handed to new Date (lines 32-43)
dateStrOf(dateValue) ==
  LET dateStr == ReplaceAll(dateValue, "/", <<"-">>)
      hasTime == Includes(dateStr, " ")
  IN  IF hasTime
      THEN ReplaceFirst(dateStr, " ", <<"T">>) \o <<"+", "0", "9", ":", "0", "0">>
      ELSE dateStr \o <<"T", "0", "0", ":", "0", "0", ":",
                        "0", "0", "+", "0", "9", ":", "0", "0">>

parseDate(dateValue) ==
  IF Falsy(dateValue) THEN Null ELSE NewDate(dateStrOf(dateValue))

\* the values parseDate can return on the engines
parseDateOutcomes(dateValue) ==
  IF Falsy(dateValue) THEN {Null} ELSE NewDateOutcomes(dateStrOf(dateValue))

\* the comparisons made with <= and >= : a Date equal to a bound replaces it
updateDateRangeLastWins(date, minDate, maxDate) ==
  << IF minDate = Null \/ date.time <= minDate.time THEN date ELSE minDate,
     IF maxDate = Null \/ date.time >= maxDate.time THEN date ELSE maxDate >>

\* returns <<newMinDate, newMaxDate>>; the relational operators compare the
\* time values of the Date objects
\* the range replaced by the date
updateDateRangeReplace(date, minDate, maxDate) == <<date, date>>

updateDateRange(date, minDate, maxDate) ==
  << IF minDate = Null \/ date.time < minDate.time THEN date ELSE minDate,
     IF maxDate = Null \/ date.time > maxDate.time THEN date ELSE maxDate >>

----------------------------------------------------------------------------
(* CSV text and csv-parse *)

\* Column labels of the source export (PayPay) ...
ColTxDate == "torihikibi"          \* transaction date and time
ColOut    == "shukkinKingaku"      \* outgoing amount (yen)
ColIn     == "nyukinKingaku"       \* incoming amount (yen)
ColPayee  == "torihikisaki"        \* counterparty
ColMethod == "torihikiHouhou"      \* payment method
ColTxNo   == "torihikiBangou"      \* transaction number

\* ... and of the aggregator export (MoneyForward ME)
ColCalc    == "keisanTaishou"      \* inclusion flag
ColMfDate  == "hiduke"             \* date
ColContent == "naiyou"             \* content
ColAmount  == "kingaku"            \* signed amount (yen)
ColInst    == "hoyuuKinyuuKikan"   \* institution

\* A CSV text is its header line (column labels) and its data lines (fields);
\* the empty text has no header and no lines.  An empty line is <<>>.
EmptyCsv == [header |-> <<>>, lines |-> <<>>]

\* a label that occurs twice keeps the later field
ColumnIndex(header, c) == Max({i \in 1..Len(header) : header[i] = c})

\* parse raises (Invalid Record Length) for a data line that has not as many
\* fields as the header line
parseRaises(csv) ==
  \E i \in 1..Len(csv.lines) :
    csv.lines[i] # <<>> /\ Len(csv.lines[i]) # Len(csv.header)

\* parse(csv, {columns: true, skip_empty_lines: true}) : one record per
\* non-empty data line, keyed by the header's labels
parse(csv) ==
  LET kept == SelectSeq(csv.lines, LAMBDA l : l # <<>>)
  IN  Tuple([i \in 1..Len(kept) |->
         Fcn([c \in Range(csv.header) |-> kept[i][ColumnIndex(csv.header, c)]])])

\* The characters of a CSV text, as csv-stringify writes them and csv-parse
\* reads them.  A column label is one symbol of the text.

\* the sequences s[lo] .. s[hi] one after the other (by halves)
RECURSIVE Concat(_, _, _)
Concat(s, lo, hi) ==
  IF lo > hi THEN <<>>
  ELSE IF lo = hi THEN s[lo]
  ELSE Concat(s, lo, (lo + hi) \div 2) \o Concat(s, (lo + hi) \div 2 + 1, hi)

\* a field written as it is, whatever it holds
quoteFieldNever(field) == field

\* csv-stringify: a field that holds the delimiter, the quote or the record
\* delimiter "\n" is written between quotes, its quotes doubled
quoteField(field) ==
  IF \E i \in 1..Len(field) : field[i] \in {",", "\"", "\n"}
  THEN <<"\"">> \o ReplaceAll(field, "\"", <<"\"", "\"">>) \o <<"\"">>
  ELSE field

\* one line: the fields with the delimiter between them, and the record delimiter
TextLine(fields) ==
  LET F[k \in 0..Len(fields)] ==
        IF k = 0 THEN <<>>
        ELSE (IF k = 1 THEN <<>> ELSE F[k - 1] \o <<",">>) \o quoteField(fields[k])
  IN  F[Len(fields)] \o <<"\n">>

\* the characters of the text with this header and these lines ({header: true})
Text(csv) ==
  LET ls == Tuple([i \in 1..Len(csv.lines) |-> TextLine(csv.lines[i])])
  IN  TextLine(Tuple([k \in 1..Len(csv.header) |-> <<csv.header[k]>>]))
        \o Concat(ls, 1, Len(ls))

\* csv-parse reading the character at st.i of a text.  st.mode is "start" (at
\* the start of a field), "plain" (in a field without quotes), "quoted" (in
\* a field between quotes) or "closed" (behind the closing quote); st.rd is
\* the record delimiter, discovered at the first line break outside quotes
\* among "\r\n", "\n" and "\r"; st.error is set by a quote inside a field
\* without quotes, by a character behind a closing quote and by a record with
\* another number of fields than the header.
readChar(st, text) ==
  LET c      == text[st.i]
      next   == IF st.i < Len(text) THEN text[st.i + 1] ELSE ""
      found  == IF st.rd # "" THEN st.rd
                ELSE IF c = "\r" /\ next = "\n" THEN "\r\n"
                ELSE IF c \in {"\r", "\n"} THEN c
                ELSE ""
      isRd   == IF found = "\r\n" THEN c = "\r" /\ next = "\n" ELSE found # "" /\ c = found
      rdLen  == IF found = "\r\n" THEN 2 ELSE 1
      record == Append(st.record, st.field)
  IN  IF st.mode = "quoted"
      THEN IF c = "\"" /\ next = "\""
           THEN [st EXCEPT !.i = @ + 2, !.field = Append(@, "\"")]
           ELSE IF c = "\""
           THEN [st EXCEPT !.i = @ + 1, !.mode = "closed"]
           ELSE [st EXCEPT !.i = @ + 1, !.field = Append(@, c)]
      ELSE IF isRd
      THEN IF st.mode = "start" /\ st.record = <<>>
           THEN [st EXCEPT !.i = @ + rdLen, !.rd = found]
           ELSE [st EXCEPT !.i = @ + rdLen, !.rd = found, !.mode = "start",
                           !.field = <<>>, !.record = <<>>,
                           !.records = Append(@, record),
                           !.error = st.records # <<>> /\ Len(record) # Len(st.records[1])]
      ELSE IF c = ","
      THEN [st EXCEPT !.i = @ + 1, !.mode = "start", !.field = <<>>, !.record = record]
      ELSE IF st.mode = "closed"
      THEN [st EXCEPT !.error = TRUE]
      ELSE IF c = "\""
      THEN IF st.mode = "start"
           THEN [st EXCEPT !.i = @ + 1, !.mode = "quoted"]
           ELSE [st EXCEPT !.error = TRUE]
      ELSE [st EXCEPT !.i = @ + 1, !.mode = "plain", !.field = Append(@, c)]

\* the characters st.i .. hi read in order (by halves)
RECURSIVE readChars(_, _, _)
readChars(text, hi, st) ==
  IF st.error \/ st.i > hi THEN st
  ELSE IF st.i = hi THEN readChar(st, text)
  ELSE readChars(text, hi, readChars(text, (st.i + hi) \div 2, st))

ParseError == [error |-> TRUE]

\* csv-parse on the characters of a text (skip_empty_lines: true): the header
\* and the lines of fields it reads, or the error it raises
parseText(text) ==
  LET st   == readChars(text, Len(text),
                        [i |-> 1, mode |-> "start", rd |-> "", error |-> FALSE,
                         field |-> <<>>, record |-> <<>>, records |-> <<>>])
      last == Append(st.record, st.field)
      all  == IF st.mode = "start" /\ st.record = <<>> THEN st.records
              ELSE Append(st.records, last)
  IN  IF \/ st.error
         \/ st.mode = "quoted"
         \/ \E k \in 1..Len(all) : Len(all[k]) # Len(all[1])
      THEN ParseError
      ELSE IF all = <<>> THEN [error |-> FALSE, header |-> <<>>, lines |-> <<>>]
      ELSE [error |-> FALSE,
            header |-> Tuple([k \in 1..Len(all[1]) |-> all[1][k][1]]),
            lines |-> SubSeq(all, 2, Len(all))]

\* the labels that are array indices ("0", "1", ...), in ascending order
IndexLabels == <<"0", "1", "2", "3", "4", "5", "6", "7", "8", "9">>

\* Object.keys(record) of a record parse made from a line under this header:
\* the properties that are array indices in ascending order, then the other
\* ones in the order parse created them, each once
ObjectKeys(record, header) ==
  LET F[k \in 0..Len(header)] ==
        IF k = 0 THEN <<>>
        ELSE IF header[k] \in Range(IndexLabels) \/ header[k] \in Range(F[k - 1])
        THEN F[k - 1]
        ELSE Append(F[k - 1], header[k])
  IN  SelectSeq(IndexLabels, LAMBDA c : c \in DOMAIN record) \o F[Len(header)]

\* record[col] : undefined when the record has no such column
Get(record, col) == IF col \in DOMAIN record THEN record[col] ELSE Undef

\* { ...record, [col]: v }
With(record, col, v) ==
  Fcn([c \in DOMAIN record \cup {col} |-> IF c = col THEN v ELSE record[c]])

----------------------------------------------------------------------------
(* Transaction Extractor *)

AmountChars == Digits \cup {","}

\* first index >= p of s whose character is not in S, Len(s) + 1 if none
SkipWhile(s, p, S) ==
  LET stop == {i \in p..Len(s) : s[i] \notin S}
  IN  IF stop = {} THEN Len(s) + 1 ELSE Min(stop)

\* \s*\((\d+|[\d,]+)Y\) matched at index p of s: the greedy runs can only be
\* the maximal ones, since the character after each must be "(" resp. "Y".
\* Returns the captured amount and the index of the closing parenthesis.
TailMatch(s, p) ==
  LET q == SkipWhile(s, p, {" "})
      r == SkipWhile(s, q + 1, AmountChars)
  IN  IF /\ q <= Len(s) /\ s[q] = "("
         /\ r > q + 1
         /\ r + 1 <= Len(s) /\ s[r] = "Y" /\ s[r + 1] = ")"
      THEN [ok |-> TRUE, amount |-> SubSeq(s, q + 1, r - 1), last |-> r + 1]
      ELSE [ok |-> FALSE, amount |-> <<>>, last |-> 0]

\* combinedPaymentRegex = /([^,]+?)\s*\((\d+|[\d,]+)Y\)/g
\* [...s.matchAll(combinedPaymentRegex)] searched from index `from`:
\* leftmost start, then the shortest name (lazy +?), then on after the match.
RECURSIVE matchAll(_, _)
matchAll(s, from) ==
  LET ends(b) == {e \in b..Len(s) :
                    /\ \A i \in b..e : s[i] # ","
                    /\ TailMatch(s, e + 1).ok}
      starts == {b \in from..Len(s) : ends(b) # {}}
  IN  IF starts = {} THEN <<>>
      ELSE LET b == Min(starts)
               e == Min(ends(b))
               t == TailMatch(s, e + 1)
           IN  <<[name |-> SubSeq(s, b, e), amount |-> t.amount]>>
                 \o matchAll(s, t.last + 1)

\* const isExpense = record[ColOut] !== "-"
isExpense(record) == Get(record, ColOut) # <<"-">>

\* the key without the sign of an expense
createTransactionUnsigned(name, amountStr, rec, expense) ==
  LET d          == Get(rec, ColTxDate)
      dateKey    == IF d = Undef THEN Undef ELSE SplitFirst(d, " ")
      contentKey == Get(rec, ColPayee)
      key        == TemplateStr(dateKey) \o <<"_">> \o amountStr \o <<"_">>
                      \o name \o <<"_">> \o TemplateStr(contentKey)
  IN  [key |-> key, record |-> rec, paymentMethod |-> name]

createTransaction(name, amountStr, rec, expense) ==
  LET d          == Get(rec, ColTxDate)
      dateKey    == IF d = Undef THEN Undef ELSE SplitFirst(d, " ")
      amountKey  == IF expense THEN <<"-">> \o amountStr ELSE amountStr
      contentKey == Get(rec, ColPayee)
      key        == TemplateStr(dateKey) \o <<"_">> \o amountKey \o <<"_">>
                      \o name \o <<"_">> \o TemplateStr(contentKey)
  IN  [key |-> key, record |-> rec, paymentMethod |-> name]

\* the Transactions of one token, its amount kept as matched
transactionOfMatchKeepCommas(match, record) ==
  LET name   == Trim(match.name)
      amount == match.amount
  IN  IF name # <<>> /\ amount # <<>>
      THEN LET newRecord == With(With(record, ColMethod, name), ColOut, amount)
           IN  <<createTransaction(name, amount, newRecord, isExpense(record))>>
      ELSE <<>>

\* the Transactions one token of a combined payment contributes (0 or 1)
transactionOfMatch(match, record) ==
  LET name   == Trim(match.name)
      amount == ReplaceAll(match.amount, ",", <<>>)
  IN  IF name # <<>> /\ amount # <<>>
      THEN LET newRecord == With(With(record, ColMethod, name), ColOut, amount)
           IN  <<createTransaction(name, amount, newRecord, isExpense(record))>>
      ELSE <<>>

\* the same turn of the loop over the matches without the copy: the parsed
\* record itself is written and pushed
splitStepInPlace(st, match) ==
  LET record == st.heap[st.parsed]
      name   == Trim(match.name)
      amount == ReplaceAll(match.amount, ",", <<>>)
  IN  IF name # <<>> /\ amount # <<>>
      THEN [st EXCEPT
              !.heap[st.parsed] = With(With(record, ColMethod, name), ColOut, amount),
              !.siblings = Append(@, st.parsed)]
      ELSE st

\* one turn of the loop over the matches (lines 177-187) on row objects:
\* { ...record } is a new object, the two assignments write it, and the
\* Transaction pushed refers to it
splitStep(st, match) ==
  LET record == st.heap[st.parsed]
      name   == Trim(match.name)
      amount == ReplaceAll(match.amount, ",", <<>>)
  IN  IF name # <<>> /\ amount # <<>>
      THEN [st EXCEPT
              !.heap = Append(@, With(With(record, ColMethod, name), ColOut, amount)),
              !.siblings = Append(@, Len(st.heap) + 1)]
      ELSE st

\* the row objects after the loop over the matches of one parsed record
splitRow(record) ==
  LET method  == Get(record, ColMethod)
      matches == IF Falsy(method) THEN <<>> ELSE matchAll(method, 1)
      F[i \in 0..Len(matches)] ==
        IF i = 0
        THEN [heap |-> <<record>>, parsed |-> 1, siblings |-> <<>>,
              source |-> record, writes |-> 0, written |-> 0, before |-> <<>>]
        ELSE splitStep(F[i - 1], matches[i])
  IN  F[Len(matches)]

\* the Transactions one source record contributes (body of the for loop)
transactionsOfRecord(record) ==
  LET transactionMethod == Get(record, ColMethod)
  IN  IF Falsy(transactionMethod) THEN <<>>
      ELSE LET matches == matchAll(transactionMethod, 1)
           IN  IF Len(matches) > 0
               THEN LET F[i \in 0..Len(matches)] ==
                          IF i = 0 THEN <<>>
                          ELSE F[i - 1] \o transactionOfMatch(matches[i], record)
                    IN  F[Len(matches)]
               ELSE LET amountValue == IF isExpense(record)
                                       THEN Get(record, ColOut)
                                       ELSE Get(record, ColIn)
                        amount == IF amountValue = Undef THEN Undef
                                  ELSE ReplaceAll(amountValue, ",", <<>>)
                    IN  IF Falsy(amount) THEN <<>>
                        ELSE <<createTransaction(transactionMethod, amount,
                                                 record, isExpense(record))>>

\* the running range forgotten at a row whose date does not parse
widenOrReset(st, raw) ==
  LET date == parseDate(raw)
      r    == updateDateRange(date, st.startDate, st.endDate)
  IN  IF date # Null THEN [st EXCEPT !.startDate = r[1], !.endDate = r[2]]
      ELSE [st EXCEPT !.startDate = Null, !.endDate = Null]

\* const date = parseDate(raw); if (date) [min, max] = updateDateRange(date, min, max)
\* applied to a loop state st that holds the running startDate and endDate
widen(st, raw) ==
  LET date == parseDate(raw)
      r    == updateDateRange(date, st.startDate, st.endDate)
  IN  IF date # Null THEN [st EXCEPT !.startDate = r[1], !.endDate = r[2]] ELSE st

\* one turn of the for loop of extractTransactionsFromPayPayCsv (lines 143-198)
extractStep(st, record) ==
  [widen(st, Get(record, ColTxDate)) EXCEPT
     !.transactions = @ \o transactionsOfRecord(record)]

\* the for loop, for the records st.i .. hi in order (st.i is the index of the
\* next record); the range is taken by halves, first half first, which keeps
\* the depth of the evaluation logarithmic
RECURSIVE extractLoop(_, _, _)
extractLoop(records, hi, st) ==
  IF st.i > hi THEN st
  ELSE IF st.i = hi
  THEN [extractStep(st, records[st.i]) EXCEPT !.i = st.i + 1]
  ELSE extractLoop(records, hi, extractLoop(records, (st.i + hi) \div 2, st))

\* the extractor with stats.count taken from the Transactions
extractCountingTransactions(payPayCsvContent) ==
  LET records == parse(payPayCsvContent)
      st      == extractLoop(records, Len(records), [i |-> 1, transactions |-> <<>>,
                                                     startDate |-> Null, endDate |-> Null])
  IN  IF parseRaises(payPayCsvContent) THEN Threw
      ELSE IF Len(records) = 0
      THEN [transactions |-> <<>>,
            stats |-> [count |-> 0, startDate |-> Null, endDate |-> Null],
            headers |-> <<>>]
      ELSE [transactions |-> st.transactions,
            stats |-> [count |-> Len(st.transactions),
                       startDate |-> st.startDate, endDate |-> st.endDate],
            headers |-> ObjectKeys(records[1], payPayCsvContent.header)]

\* the function reporting the file's header line also when no row follows it
extractKeepingHeaders(payPayCsvContent) ==
  LET records == parse(payPayCsvContent)
      st      == extractLoop(records, Len(records), [i |-> 1, transactions |-> <<>>,
                                                     startDate |-> Null, endDate |-> Null])
  IN  [transactions |-> st.transactions,
       stats |-> [count |-> Len(records),
                  startDate |-> st.startDate, endDate |-> st.endDate],
       headers |-> payPayCsvContent.header]

extractTransactionsFromPayPayCsv(payPayCsvContent) ==
  LET records == parse(payPayCsvContent)
      st      == extractLoop(records, Len(records), [i |-> 1, transactions |-> <<>>,
                                                     startDate |-> Null, endDate |-> Null])
  IN  IF parseRaises(payPayCsvContent) THEN Threw
      ELSE IF Len(records) = 0
      THEN [transactions |-> <<>>,
            stats |-> [count |-> 0, startDate |-> Null, endDate |-> Null],
            headers |-> <<>>]
      ELSE [transactions |-> st.transactions,
            stats |-> [count |-> Len(records),
                       startDate |-> st.startDate, endDate |-> st.endDate],
            headers |-> ObjectKeys(records[1], payPayCsvContent.header)]

----------------------------------------------------------------------------
(* Exclusion Set Builder *)

\* the guard of line 91 alone, without the inclusion-flag test
addsKeyIgnoringFlag(record) ==
  /\ ~Falsy(Get(record, ColMfDate))
  /\ ~Falsy(Get(record, ColAmount))
  /\ ~Falsy(Get(record, ColInst))
  /\ ~Falsy(Get(record, ColContent))

\* does the record add its key (lines 91-97)?
addsKey(record) ==
  /\ ~Falsy(Get(record, ColMfDate))
  /\ ~Falsy(Get(record, ColAmount))
  /\ ~Falsy(Get(record, ColInst))
  /\ ~Falsy(Get(record, ColContent))
  /\ Get(record, ColCalc) # <<"0">>

\* the key with content and institution in the other order
mfmeKeySwapped(record) ==
  Get(record, ColMfDate) \o <<"_">> \o Get(record, ColAmount) \o <<"_">>
    \o Get(record, ColContent) \o <<"_">> \o Get(record, ColInst)

\* `${dateStr}_${amount}_${institution}_${content}`
mfmeKey(record) ==
  Get(record, ColMfDate) \o <<"_">> \o Get(record, ColAmount) \o <<"_">>
    \o Get(record, ColInst) \o <<"_">> \o Get(record, ColContent)

\* one turn of the inner for loop that widens the date range only for the
\* records that add a key
mfmeStepKeyedOnly(st, record) ==
  IF addsKey(record)
  THEN [widen(st, Get(record, ColMfDate)) EXCEPT
          !.count = @ + 1, !.exclusionSet = @ \cup {mfmeKey(record)}]
  ELSE [st EXCEPT !.count = @ + 1]

\* one turn of the inner for loop that counts only the records that add a key
mfmeStepCountsKeyed(st, record) ==
  IF addsKey(record)
  THEN [widen(st, Get(record, ColMfDate)) EXCEPT
          !.count = @ + 1, !.exclusionSet = @ \cup {mfmeKey(record)}]
  ELSE widen(st, Get(record, ColMfDate))

\* one turn of the inner for loop (lines 79-98)
mfmeStep(st, record) ==
  [widen(st, Get(record, ColMfDate)) EXCEPT
     !.count = @ + 1,
     !.exclusionSet = IF addsKey(record) THEN @ \cup {mfmeKey(record)} ELSE @]

\* the inner for loop, for the records st.i .. hi of one text (by halves)
RECURSIVE mfmeRecordLoop(_, _, _)
mfmeRecordLoop(records, hi, st) ==
  IF st.i > hi THEN st
  ELSE IF st.i = hi
  THEN [mfmeStep(st, records[st.i]) EXCEPT !.i = st.i + 1]
  ELSE mfmeRecordLoop(records, hi, mfmeRecordLoop(records, (st.i + hi) \div 2, st))

\* the inner for loop over all the records of one text
mfmeRecords(records, st) == mfmeRecordLoop(records, Len(records), [st EXCEPT !.i = 1])

\* the outer for loop over the texts; st.f is the index of the next text
RECURSIVE mfmeCsvLoop(_, _)
mfmeCsvLoop(csvs, st) ==
  IF st.f > Len(csvs) THEN st
  ELSE mfmeCsvLoop(csvs,
         [mfmeRecords(parse(csvs[st.f]), st) EXCEPT !.f = st.f + 1])

createMfmeExclusionSet(csvs) ==
  LET st == mfmeCsvLoop(csvs, [f |-> 1, i |-> 1, exclusionSet |-> {}, count |-> 0,
                               startDate |-> Null, endDate |-> Null])
  IN  IF \E f \in 1..Len(csvs) : parseRaises(csvs[f]) THEN Threw
      ELSE [exclusionSet |-> st.exclusionSet,
            stats |-> [count |-> st.count,
                       startDate |-> st.startDate, endDate |-> st.endDate]]

----------------------------------------------------------------------------
(* Transaction Filter *)

\* groupedRecords is an object literal {}: a name it does not own is looked up
\* on Object.prototype, whose properties are these
ObjectPrototypeKeys == {
    <<"c", "o", "n", "s", "t", "r", "u", "c", "t", "o", "r">>,
    <<"t", "o", "S", "t", "r", "i", "n", "g">>,
    <<"v", "a", "l", "u", "e", "O", "f">>,
    <<"t", "o", "L", "o", "c", "a", "l", "e", "S", "t", "r", "i", "n", "g">>,
    <<"h", "a", "s", "O", "w", "n", "P", "r", "o", "p", "e", "r", "t", "y">>,
    <<"i", "s", "P", "r", "o", "t", "o", "t", "y", "p", "e", "O", "f">>,
    <<"p", "r", "o", "p", "e", "r", "t", "y", "I", "s", "E", "n", "u", "m", "e", "r", "a", "b", "l", "e">>,
    <<"_", "_", "p", "r", "o", "t", "o", "_", "_">>,
    <<"_", "_", "d", "e", "f", "i", "n", "e", "G", "e", "t", "t", "e", "r", "_", "_">>,
    <<"_", "_", "d", "e", "f", "i", "n", "e", "S", "e", "t", "t", "e", "r", "_", "_">>,
    <<"_", "_", "l", "o", "o", "k", "u", "p", "G", "e", "t", "t", "e", "r", "_", "_">>,
    <<"_", "_", "l", "o", "o", "k", "u", "p", "S", "e", "t", "t", "e", "r", "_", "_">>}

\* the loop body without the `continue` of line 222
filterStepNoContinue(st, tx, exclusionSet) ==
  LET g == st.groupedRecords
      m == tx.paymentMethod
      d == IF tx.key \in exclusionSet THEN st.duplicates + 1 ELSE st.duplicates
  IN  IF m \in DOMAIN g
      THEN [st EXCEPT !.duplicates = d,
                      !.groupedRecords = [g EXCEPT ![m] = Append(@, tx.record)]]
      ELSE [st EXCEPT !.duplicates = d,
                      !.groupedRecords = g @@ (m :> <<tx.record>>)]

\* the loop body creating the method's list before the exclusion test
filterStepEmptyGroup(st, tx, exclusionSet) ==
  LET m == tx.paymentMethod
      g == IF m \in DOMAIN st.groupedRecords THEN st.groupedRecords
           ELSE st.groupedRecords @@ (m :> <<>>)
  IN  IF tx.key \in exclusionSet
      THEN [st EXCEPT !.duplicates = @ + 1, !.groupedRecords = g]
      ELSE [st EXCEPT !.groupedRecords = [g EXCEPT ![m] = Append(@, tx.record)]]

\* the loop body with unshift in place of push
filterStepPrepend(st, tx, exclusionSet) ==
  IF tx.key \in exclusionSet
  THEN [st EXCEPT !.duplicates = @ + 1]
  ELSE LET g == st.groupedRecords
           m == tx.paymentMethod
       IN  IF m \in DOMAIN g
           THEN [st EXCEPT !.groupedRecords = [g EXCEPT ![m] = <<tx.record>> \o @]]
           ELSE [st EXCEPT !.groupedRecords = g @@ (m :> <<tx.record>>)]

\* the loop body deleting a key from the set once a transaction matched it
filterStepConsumesKey(st, tx, exclusionSet) ==
  IF tx.key \in exclusionSet
  THEN [st EXCEPT !.duplicates = @ + 1, !.exclusionSet = @ \ {tx.key}]
  ELSE LET g == st.groupedRecords
           m == tx.paymentMethod
       IN  IF m \in DOMAIN g
           THEN [st EXCEPT !.groupedRecords = [g EXCEPT ![m] = Append(@, tx.record)]]
           ELSE IF m \in ObjectPrototypeKeys
           THEN [st EXCEPT !.threw = TRUE]
           ELSE [st EXCEPT !.groupedRecords = g @@ (m :> <<tx.record>>)]

\* one turn of the for loop (lines 219-231); `existingRecords.push` of an
\* inherited, non-array value is a TypeError
filterStep(st, tx, exclusionSet) ==
  IF tx.key \in exclusionSet
  THEN [st EXCEPT !.duplicates = @ + 1]
  ELSE LET g == st.groupedRecords
           m == tx.paymentMethod
       IN  IF m \in DOMAIN g
           THEN [st EXCEPT !.groupedRecords = [g EXCEPT ![m] = Append(@, tx.record)]]
           ELSE IF m \in ObjectPrototypeKeys
           THEN [st EXCEPT !.threw = TRUE]
           ELSE [st EXCEPT !.groupedRecords = g @@ (m :> <<tx.record>>)]

\* the for loop, for the transactions st.i .. hi in order (by halves); a
\* TypeError ends it.  The loop state holds the two argument objects, which
\* the caller shares with the function, beside the function's locals.
RECURSIVE filterLoop(_, _)
filterLoop(hi, st) ==
  IF st.threw \/ st.i > hi THEN st
  ELSE IF st.i = hi
  THEN [filterStep(st, st.transactions[st.i], st.exclusionSet) EXCEPT !.i = st.i + 1]
  ELSE filterLoop(hi, filterLoop((st.i + hi) \div 2, st))

\* the function's body run to its end: its locals and its two arguments as
\* the run leaves them
filterRun(transactions, exclusionSet) ==
  filterLoop(Len(transactions),
             [i |-> 1, threw |-> FALSE,
              groupedRecords |-> <<>>, duplicates |-> 0,
              transactions |-> transactions, exclusionSet |-> exclusionSet])

\* the returned { groupedRecords, duplicates }, or Threw
filterResult(st) ==
  IF st.threw THEN Threw
  ELSE [threw |-> FALSE, groupedRecords |-> st.groupedRecords,
        duplicates |-> st.duplicates]

filterTransactions(transactions, exclusionSet) ==
  filterResult(filterRun(transactions, exclusionSet))

----------------------------------------------------------------------------
(* Chunker / Serializer *)

\* a chunk one row short
chunkSize99 == 100 - 1

chunkSize == 100

\* a.slice(i, j) with 0-based i, j
slice(a, i, j) == SubSeq(a, i + 1, IF j < Len(a) THEN j ELSE Len(a))

\* stringify(records, {header: true, columns: headers}) : the header line and
\* one line per record with the fields in the order of headers; a missing
\* value is written as the empty field
stringify(records, headers) ==
  [header |-> headers,
   lines  |-> Tuple([i \in 1..Len(records) |->
                 Tuple([k \in 1..Len(headers) |->
                    IF Get(records[i], headers[k]) = Undef THEN <<>>
                    ELSE records[i][headers[k]]])])]

\* the inner for loop (lines 258-263), for the chunk's records st.i .. hi
\* (by halves)
RECURSIVE chunkDateLoop(_, _, _)
chunkDateLoop(chunkOfRecords, hi, st) ==
  IF st.i > hi THEN st
  ELSE IF st.i = hi
  THEN [widen(st, Get(chunkOfRecords[st.i], ColTxDate)) EXCEPT !.i = st.i + 1]
  ELSE chunkDateLoop(chunkOfRecords, hi,
                     chunkDateLoop(chunkOfRecords, (st.i + hi) \div 2, st))

\* body of the loop over i (lines 254-276)
\* a chunk born imported
makeChunkImported(chunkOfRecords, headers) ==
  LET st == chunkDateLoop(chunkOfRecords, Len(chunkOfRecords),
                          [i |-> 1, startDate |-> Null, endDate |-> Null])
  IN  [data |-> stringify(chunkOfRecords, headers),
       count |-> Len(chunkOfRecords),
       startDate |-> st.startDate,
       endDate |-> st.endDate,
       imported |-> TRUE]

makeChunk(chunkOfRecords, headers) ==
  LET st == chunkDateLoop(chunkOfRecords, Len(chunkOfRecords),
                          [i |-> 1, startDate |-> Null, endDate |-> Null])
  IN  [data |-> stringify(chunkOfRecords, headers),
       count |-> Len(chunkOfRecords),
       startDate |-> st.startDate,
       endDate |-> st.endDate,
       imported |-> FALSE]

\* the loop with minDate and maxDate computed over the records up to the end
\* of the chunk, those of the earlier chunks included
RECURSIVE chunkLoopCumulative(_, _, _)
chunkLoopCumulative(allRecords, headers, i) ==
  IF i < Len(allRecords)
  THEN LET own == makeChunk(slice(allRecords, i, i + chunkSize), headers)
           all == makeChunk(slice(allRecords, 0, i + chunkSize), headers)
       IN  <<[own EXCEPT !.startDate = all.startDate, !.endDate = all.endDate]>>
             \o chunkLoopCumulative(allRecords, headers, i + chunkSize)
  ELSE <<>>

\* for (let i = 0; i < allRecords.length; i += chunkSize)
RECURSIVE chunkLoop(_, _, _)
chunkLoop(allRecords, headers, i) ==
  IF i < Len(allRecords)
  THEN <<makeChunk(slice(allRecords, i, i + chunkSize), headers)>>
         \o chunkLoop(allRecords, headers, i + chunkSize)
  ELSE <<>>

createChunksFromGroupedRecords(groupedRecords, headers) ==
  Fcn([name \in {n \in DOMAIN groupedRecords : Len(groupedRecords[n]) > 0} |->
     chunkLoop(groupedRecords[name], headers, 0)])

----------------------------------------------------------------------------
(* Inputs: the texts the pipeline is run on *)

\* bounds
MaxRows == 3

MaxMfRows == 2

MaxBulkRows == 201

DateTime1         == <<"2", "0", "2", "5", "/", "1", "0", "/", "2", "4", " ", "1", "0", ":", "5", "9", ":", "2", "5">>
DateTime2         == <<"2", "0", "2", "5", "/", "0", "9", "/", "2", "9", " ", "1", "4", ":", "5", "4", ":", "1", "2">>
BadDate           == <<"n", "/", "a">>
Date1             == <<"2", "0", "2", "5", "/", "1", "0", "/", "2", "4">>
Date2             == <<"2", "0", "2", "5", "/", "0", "9", "/", "2", "9">>
MethodA           == <<"A">>
MethodB           == <<"B">>
MethodCombined    == <<"B", " ", "(", "9", "Y", ")", ",", " ", "A", " ", "(", "3", "Y", ")">>
MethodCombinedComma == <<"B", " ", "(", "1", "Y", ")", ",", " ", "A", " ", "(", "2", ",", "5", "9", "9", "Y", ")">>
Dash              == <<"-">>
Amt190            == <<"1", "9", "0">>
Amt50             == <<"5", "0">>
Amt12             == <<"1", "2">>
AmtComma          == <<"1", ",", "1", "9", "0">>
Neg190            == <<"-", "1", "9", "0">>
Store             == <<"S">>
StoreQuoted       == <<"a", ",", "\"", "b", "\n", "\r", " ">>
Flag1             == <<"1">>
Empty             == <<>>

DigitChar(d) == CHOOSE c \in Digits : DigitVal(c) = d

\* String(n) for n >= 0
RECURSIVE ToStr(_)
ToStr(n) == IF n < 10 THEN <<DigitChar(n)>>
            ELSE ToStr(n \div 10) \o <<DigitChar(n % 10)>>

SeqsUpTo(S, n) == UNION {[1..k -> S] : k \in 0..n}

PayPayHeader == <<ColTxDate, ColOut, ColIn, ColPayee, ColMethod, ColTxNo>>

MfmeHeader == <<ColCalc, ColMfDate, ColContent, ColAmount, ColInst>>

\* a source row without its transaction number
Row(date, out, in, payee, method) ==
  [date |-> date, out |-> out, in |-> in, payee |-> payee, method |-> method]

\* the source text whose i-th data line is rows[i] with transaction number i
PayPayText(rows) ==
  [header |-> PayPayHeader,
   lines  |-> Tuple([i \in 1..Len(rows) |->
                 <<rows[i].date, rows[i].out, rows[i].in, rows[i].payee,
                   rows[i].method, ToStr(i)>>])]

\* the same text with the k-th column left out of the export
WithoutColumn(csv, k) ==
  LET drop(l) == SubSeq(l, 1, k - 1) \o SubSeq(l, k + 1, Len(l))
  IN  [header |-> drop(csv.header),
       lines  |-> Tuple([i \in 1..Len(csv.lines) |-> drop(csv.lines[i])])]

ExpenseRow == Row(DateTime1, Amt190, Dash, Store, MethodA)

CombinedRow == Row(DateTime1, Amt12, Dash, Store, MethodCombined)

\* rows that differ in date or counterparty, and rows that differ in direction
\* and payment-method field
SourceRows ==
  {Row(d, Amt190, Dash, Store, MethodA) : d \in {DateTime1, DateTime2, BadDate}}
  \cup {Row(DateTime1, Amt190, Dash, Empty, MethodA),
        Row(DateTime1, AmtComma, Dash, Store, MethodA),
        Row(DateTime1, Amt190, Dash, Store, <<"A", " ", "(", "2", ",", "5", "Y", ")">>),
        Row(DateTime1, AmtComma, Dash, Store, MethodCombinedComma),
        Row(DateTime2, Dash, Dash, Store, Empty),
        Row(DateTime1, Amt190, Dash, StoreQuoted, MethodA),
        Row(DateTime1, Amt190, Dash, <<" ", "x", "\r", "y">>, MethodA),
        Row(DateTime1, Amt190, Dash, Store, <<"v", "a", "l", "u", "e", "O", "f">>)}
  \cup {Row(DateTime1, a[1], a[2], Store, m) :
          a \in {<<Amt190, Dash>>, <<Dash, Amt50>>, <<Dash, Dash>>},
          m \in {MethodA, MethodCombined, <<" ", "(", "1", "Y", ")">>, <<"A", " ", "(", ",", "Y", ")">>, Empty}}

MfRow(flag, date, content, amount, inst) == <<flag, date, content, amount, inst>>

MfmeText(rows) == [header |-> MfmeHeader, lines |-> Tuple(rows)]

\* the lists of aggregator texts made of the rows rs: one text, or two texts
\* that hold the first k and the remaining rows
MfmeSplits(rs) ==
  {<<MfmeText(rs)>>}
  \cup {<<MfmeText(SubSeq(rs, 1, k)), MfmeText(SubSeq(rs, k + 1, Len(rs)))>> :
          k \in 0..Len(rs)}

\* source texts rich in row shapes (no text, the header alone, every row
\* alone and every pair of rows, and the texts of up to MaxRows core rows),
\* against no or one aggregator row
InputsExtract ==
  \* the rows the longer short texts are made of
  LET CoreRows ==
        {ExpenseRow, CombinedRow,
         Row(DateTime2, Amt190, Dash, Store, MethodA),
         Row(DateTime2, Dash, Amt50, Store, MethodB)}
  IN
  /\ payPayCsv \in {EmptyCsv, PayPayText(<<>>)}
        \cup {PayPayText(<<r>>) : r \in SourceRows}
        \cup {PayPayText(<<r, q>>) : r \in SourceRows, q \in SourceRows}
        \cup {PayPayText(rows) : rows \in SeqsUpTo(CoreRows, MaxRows)}
        \cup {WithoutColumn(PayPayText(<<ExpenseRow>>), k) : k \in 1..Len(PayPayHeader)}
  /\ mfmeCsvs \in {<<>>, <<MfmeText(<<MfRow(Flag1, Date1, Store, Neg190, MethodA)>>)>>}

\* aggregator texts rich in row shapes, against two source texts
InputsMfme ==
  LET MfRows ==
        {MfRow(Flag1, Date1, Store, Neg190, MethodA),
         MfRow(<<"0">>, Date1, Store, Neg190, MethodA),
         MfRow(Flag1, Date1, Store, <<"-", "3">>, MethodA),
         MfRow(Flag1, Date2, Store, <<"-", "9">>, MethodB),
         MfRow(Flag1, Date1, Empty, Neg190, MethodA),
         MfRow(Flag1, BadDate, Store, Neg190, MethodA)}
  IN
  /\ payPayCsv \in {PayPayText(<<ExpenseRow, CombinedRow>>),
                    PayPayText(<<Row(DateTime1, Amt190, Dash, Empty, MethodA)>>)}
  /\ mfmeCsvs \in {<<>>, <<EmptyCsv>>}
        \cup UNION {MfmeSplits(rs) : rs \in SeqsUpTo(MfRows, MaxMfRows)}

\* texts with other header lines.  Source texts: the columns in the opposite
\* order, one more column (labelled c, after the others), columns labelled
\* with numbers, a label that occurs twice.  Aggregator texts: a column left
\* out of a text with three rows, two of them alike and one without content
InputsHeaders ==
  LET source == PayPayText(<<CombinedRow, ExpenseRow>>)
      rev(l) == Tuple([k \in 1..Len(l) |-> l[Len(l) + 1 - k]])
      Reversed(csv) ==
        [header |-> rev(csv.header),
         lines  |-> Tuple([i \in 1..Len(csv.lines) |-> rev(csv.lines[i])])]
      WithColumn(csv, c) ==
        [header |-> Append(csv.header, c),
         lines  |-> Tuple([i \in 1..Len(csv.lines) |->
                             Append(csv.lines[i], <<"x">>)])]
      mfme == MfmeText(<<MfRow(Flag1, Date1, Store, Neg190, MethodA),
                         MfRow(Flag1, Date1, Store, Neg190, MethodA),
                         MfRow(Flag1, Date1, Empty, Neg190, MethodA)>>)
  IN  \/ /\ payPayCsv \in {Reversed(source),
                            WithColumn(source, "memo"),
                            WithColumn(source, "1"),
                            WithColumn(WithColumn(source, "2"), "1"),
                            Reversed(WithColumn(source, "0")),
                            WithColumn(source, ColPayee)}
         /\ mfmeCsvs = <<>>
      \/ /\ payPayCsv = PayPayText(<<ExpenseRow>>)
         /\ mfmeCsvs \in {<<mfme>>}
               \cup {<<WithoutColumn(mfme, k)>> : k \in 1..Len(MfmeHeader)}

\* texts with the character "_" in a payment method, an institution, a
\* counterparty or a content
InputsSeparator ==
  LET methodAB == Row(DateTime1, Amt190, Dash, <<"C">>, <<"A", "_", "B">>)
      payeeBC  == Row(DateTime1, Amt190, Dash, <<"B", "_", "C">>, MethodA)
  IN  /\ payPayCsv \in {PayPayText(<<methodAB>>), PayPayText(<<payeeBC>>),
                         PayPayText(<<methodAB, payeeBC>>),
                         PayPayText(<<methodAB, ExpenseRow>>)}
      /\ mfmeCsvs \in {<<>>,
                        <<MfmeText(<<MfRow(Flag1, Date1, <<"B", "_", "C">>,
                                           Neg190, MethodA)>>)>>,
                        <<MfmeText(<<MfRow(Flag1, Date1, <<"C">>, Neg190,
                                           <<"A", "_", "B">>)>>)>>}

BulkSizes ==
  LET half == chunkSize \div 2
  IN  {n \in 0..MaxBulkRows : n % half \in {0, 1, half - 1}}

\* texts without a data row: the empty text and the header line alone
InputsEmpty ==
  /\ payPayCsv \in {EmptyCsv, PayPayText(<<>>)}
  /\ mfmeCsvs \in {<<>>, <<EmptyCsv>>, <<MfmeText(<<>>)>>, <<EmptyCsv, MfmeText(<<>>)>>}

\* texts with a data line shorter or longer than the header line
InputsMalformed ==
  LET source == PayPayText(<<ExpenseRow, CombinedRow>>)
      mfme   == MfmeText(<<MfRow(Flag1, Date1, Store, Neg190, MethodA)>>)
  IN  /\ payPayCsv \in {source,
                         [source EXCEPT !.lines[2] = SubSeq(@, 1, Len(@) - 1)],
                         [source EXCEPT !.lines[1] = Append(@, <<"x">>)]}
      /\ mfmeCsvs \in {<<>>, <<mfme>>,
                        <<[mfme EXCEPT !.lines[1] = SubSeq(@, 1, Len(@) - 1)]>>,
                        <<mfme, [mfme EXCEPT !.lines[1] = Append(@, <<"x">>)]>>}

InputsBulk ==
  \* long source texts of more than one chunk whose first row differs from all
  \* the others in date or method, with and without parseable dates
  LET BulkDatedTexts ==
        {PayPayText(Tuple([i \in 1..n |-> IF i = 1 THEN first ELSE rest])) :
           n \in {k \in BulkSizes : k > chunkSize},
           first \in {Row(DateTime2, Amt190, Dash, Store, MethodA),
                      Row(DateTime2, Amt50, Dash, Store, MethodB),
                      Row(BadDate, Amt190, Dash, Store, MethodA)},
           rest \in {ExpenseRow, Row(BadDate, Amt190, Dash, Store, MethodA)}}
  IN
  \* long source texts: n rows that repeat a pattern of one to three rows, for
  \* the n at and next to the multiples of half a chunk
  LET BulkPatterns ==
        {<<ExpenseRow>>,
         <<ExpenseRow, Row(DateTime2, Amt50, Dash, Store, MethodB)>>,
         <<Row(DateTime2, Amt50, Dash, Store, MethodB), ExpenseRow, CombinedRow>>}
  IN
  /\ payPayCsv \in {PayPayText(Tuple([i \in 1..n |-> p[((i - 1) % Len(p)) + 1]])) :
                      n \in BulkSizes, p \in BulkPatterns}
                    \cup BulkDatedTexts
  /\ mfmeCsvs \in {<<>>, <<MfmeText(<<MfRow(Flag1, Date1, Store, Neg190, MethodA)>>)>>}

----------------------------------------------------------------------------
(* The pipeline *)

Init ==
  /\ ui = Pending
  /\ InputsExtract \/ InputsMfme \/ InputsEmpty \/ InputsMalformed \/ InputsHeaders
       \/ InputsSeparator \/ InputsBulk
  /\ extracted = Pending
  /\ exclusion = Pending
  /\ filtered = Pending
  /\ refiltered = Pending
  /\ chunks = Pending
  /\ rechunked = Pending
  /\ objects = Pending
  /\ dateCall = NoCall

\* Step 1: the source text is read and extracted
Extract ==
  /\ extracted = Pending
  /\ extracted' = extractTransactionsFromPayPayCsv(payPayCsv)
  /\ UNCHANGED <<payPayCsv, mfmeCsvs, ui, objects, exclusion, filtered, refiltered, chunks, rechunked, dateCall>>

\* Step 2: the aggregator texts are read and the exclusion set is built
BuildExclusion ==
  /\ exclusion = Pending
  /\ exclusion' = createMfmeExclusionSet(mfmeCsvs)
  /\ UNCHANGED <<payPayCsv, mfmeCsvs, ui, objects, extracted, filtered, refiltered, chunks, rechunked, dateCall>>

\* the extracted transactions are filtered against the exclusion set
Filter ==
  /\ extracted \notin {Pending, Threw}
  /\ exclusion \notin {Pending, Threw}
  /\ filtered = Pending
  /\ LET st == filterRun(extracted.transactions, exclusion.exclusionSet)
     IN  /\ filtered' = filterResult(st)
         /\ extracted' = [extracted EXCEPT !.transactions = st.transactions]
         /\ exclusion' = [exclusion EXCEPT !.exclusionSet = st.exclusionSet]
  /\ UNCHANGED <<payPayCsv, mfmeCsvs, ui, objects, refiltered, chunks, rechunked, dateCall>>

\* the same call made once more at the end of the run, on the list and the set
\* as the first call left them
FilterAgain ==
  /\ filtered # Pending
  /\ filtered.threw \/ chunks # Pending
  /\ refiltered = Pending
  /\ LET st == filterRun(extracted.transactions, exclusion.exclusionSet)
     IN  /\ refiltered' = filterResult(st)
         /\ extracted' = [extracted EXCEPT !.transactions = st.transactions]
         /\ exclusion' = [exclusion EXCEPT !.exclusionSet = st.exclusionSet]
  /\ UNCHANGED <<payPayCsv, mfmeCsvs, ui, objects, filtered, chunks, rechunked, dateCall>>

\* the surviving rows are chunked and serialized; a filter that threw has
\* returned nothing to chunk
Chunk ==
  /\ filtered # Pending
  /\ ~filtered.threw
  /\ chunks = Pending
  /\ chunks' = createChunksFromGroupedRecords(filtered.groupedRecords, extracted.headers)
  /\ UNCHANGED <<payPayCsv, mfmeCsvs, ui, objects, extracted, exclusion, filtered, refiltered, rechunked, dateCall>>

\* the most chunks the caller marks before the chunker runs again
MaxMarked == 1

\* the chunks of a result whose imported flag is set
Imported(cs) ==
  IF cs = Pending THEN {}
  ELSE {p \in UNION {{<<n, c>> : c \in 1..Len(cs[n])} : n \in DOMAIN cs} :
          cs[p[1]][p[2]].imported}

\* the caller, handleMarkAsImported: chunkToUpdate.imported = true
MarkAsImported ==
  /\ chunks # Pending
  /\ rechunked = Pending
  /\ Cardinality(Imported(chunks)) < MaxMarked
  /\ \E name \in DOMAIN chunks : \E index \in 1..Len(chunks[name]) :
       /\ ~chunks[name][index].imported
       /\ chunks' = [chunks EXCEPT ![name][index].imported = TRUE]
  /\ UNCHANGED <<payPayCsv, mfmeCsvs, ui, objects, extracted, exclusion, filtered, refiltered,
                 rechunked, dateCall>>

\* the chunker called again on the same groups after the caller marked chunks
\* of the earlier result
ChunkAgain ==
  /\ Imported(chunks) # {}
  /\ rechunked = Pending
  /\ rechunked' = createChunksFromGroupedRecords(filtered.groupedRecords, extracted.headers)
  /\ UNCHANGED <<payPayCsv, mfmeCsvs, ui, objects, extracted, exclusion, filtered, refiltered,
                 chunks, dateCall>>

Next == Extract \/ BuildExclusion \/ Filter \/ FilterAgain \/ Chunk

Spec == Init /\ [][Next]_vars

\* the most writes made to sibling rows
MaxWrites == 1

\* one combined-payment record has been parsed and split
InitRows ==
  /\ ui = Pending
  /\ payPayCsv = EmptyCsv
  /\ mfmeCsvs = <<>>
  /\ extracted = Pending
  /\ exclusion = Pending
  /\ filtered = Pending
  /\ refiltered = Pending
  /\ chunks = Pending
  /\ rechunked = Pending
  /\ dateCall = NoCall
  /\ \E csv \in {PayPayText(<<Row(d, a[1], a[2], Store, m)>>) :
                    d \in {DateTime1, DateTime2},
                    a \in {<<Amt12, Dash>>, <<Dash, Amt50>>},
                    m \in {MethodCombined, MethodCombinedComma}}
               \cup {WithoutColumn(PayPayText(<<CombinedRow>>), k) :
                       k \in 1..Len(PayPayHeader)} :
       objects = splitRow(parse(csv)[1])

\* a caller writes a field of one sibling Transaction's row
WriteSibling ==
  /\ objects.writes < MaxWrites
  /\ \E k \in 1..Len(objects.siblings) : \E col \in Range(PayPayHeader) :
       objects' = [objects EXCEPT
                     !.heap[objects.siblings[k]] = With(@, col, <<"w">>),
                     !.writes = @ + 1,
                     !.written = k,
                     !.before = objects.heap]
  /\ UNCHANGED <<payPayCsv, mfmeCsvs, ui, extracted, exclusion, filtered, refiltered,
                 chunks, rechunked, dateCall>>

SpecRows == InitRows /\ [][WriteSibling]_vars

\* the pipeline with a caller that marks chunks and has them made again
NextImported == Next \/ MarkAsImported \/ ChunkAgain

SpecImported == Init /\ [][NextImported]_vars

----------------------------------------------------------------------------
(* The date functions called on their own *)

\* bounds: the Date objects handed to updateDateRange have one of
\* MaxTimes + 1 time values a day apart and are one of MaxRefs objects
MaxTimes == 3

MaxRefs == 2

\* 2025-10-24T01:59:25.000Z, in seconds
BaseTime == 1761271165

\* Date objects: two objects with the same time value are told apart by ref
DateObjects ==
  [time : {BaseTime + 86400 * k : k \in 0..MaxTimes}, ref : 1..MaxRefs]

InitDates ==
  /\ ui = Pending
  /\ payPayCsv = EmptyCsv
  /\ mfmeCsvs = <<>>
  /\ extracted = Pending
  /\ exclusion = Pending
  /\ filtered = Pending
  /\ refiltered = Pending
  /\ chunks = Pending
  /\ rechunked = Pending
  /\ objects = Pending
  /\ dateCall = NoCall

\* one call of updateDateRange
CallUpdateDateRange ==
  /\ dateCall = NoCall
  /\ \E date \in DateObjects :
       \E minDate \in DateObjects \cup {Null} :
         \E maxDate \in DateObjects \cup {Null} :
           dateCall' = [fn |-> "updateDateRange",
                        date |-> date, minDate |-> minDate, maxDate |-> maxDate,
                        result |-> updateDateRange(date, minDate, maxDate)]
  /\ UNCHANGED <<payPayCsv, mfmeCsvs, ui, objects, extracted, exclusion, filtered, refiltered, chunks, rechunked>>

\* the dates and times of day the strings handed to parseDate are made of
DateParts ==
  {<<"2", "0", "2", "5", "/", "1", "0", "/", "2", "4">>,
   <<"2", "0", "2", "5", "/", "0", "9", "/", "2", "9">>,
   <<"2", "0", "2", "5", "/", "0", "1", "/", "0", "1">>,
   <<"2", "0", "2", "5", "/", "1", "2", "/", "3", "1">>,
   <<"2", "0", "2", "4", "/", "0", "2", "/", "2", "9">>,
   <<"2", "0", "2", "5", "/", "0", "2", "/", "2", "9">>,
   <<"2", "0", "2", "5", "/", "0", "4", "/", "3", "1">>,
   <<"2", "0", "2", "5", "-", "1", "0", "-", "2", "4">>,
   <<"2", "0", "2", "5", "/", "1", "0">>,
   <<"2", "0", "2", "5">>}

TimeParts ==
  {<<>>,
   <<" ", "1", "0", ":", "5", "9", ":", "2", "5">>,
   <<" ", "0", "0", ":", "0", "0", ":", "0", "0">>,
   <<" ", "0", "8", ":", "5", "9", ":", "5", "9">>,
   <<" ", "0", "9", ":", "0", "0", ":", "0", "0">>,
   <<" ", "2", "3", ":", "5", "9", ":", "5", "9">>,
   <<" ", "1", "0", ":", "5", "9">>}

DateValues ==
  {d \o t : d \in DateParts, t \in TimeParts} \cup {Undef, <<>>, <<"i", "n", "v", "a", "l", "i", "d", "-", "d", "a", "t", "e">>}

\* one call of parseDate, on one of the engines
CallParseDate ==
  /\ dateCall = NoCall
  /\ \E dateValue \in DateValues :
       \E result \in parseDateOutcomes(dateValue) :
         dateCall' = [fn |-> "parseDate", dateValue |-> dateValue, result |-> result]
  /\ UNCHANGED <<payPayCsv, mfmeCsvs, ui, objects, extracted, exclusion, filtered, refiltered, chunks, rechunked>>

\* the most rows of one loop over dated rows
MaxFold == 3

\* one more row of a loop that keeps a running date range (lines 86-89,
\* 144-151, 259-263), begun with minDate = maxDate = null
FoldDate ==
  /\ dateCall = NoCall \/ dateCall.fn = "fold"
  /\ LET st == IF dateCall = NoCall
               THEN [fn |-> "fold", n |-> 0, startDate |-> Null, endDate |-> Null,
                     before |-> <<Null, Null>>]
               ELSE dateCall
     IN  /\ st.n < MaxFold
         /\ \E raw \in {DateTime1, DateTime2, Date1, Date2, BadDate, Undef} :
              dateCall' = [widen(st, raw) EXCEPT
                             !.n = @ + 1,
                             !.before = <<st.startDate, st.endDate>>]
  /\ UNCHANGED <<payPayCsv, mfmeCsvs, ui, objects, extracted, exclusion, filtered,
                 refiltered, chunks, rechunked>>

NextDates == CallUpdateDateRange \/ CallParseDate \/ FoldDate

SpecDates == InitDates /\ [][NextDates]_vars

----------------------------------------------------------------------------
(* The upload step of the page taken on its own *)

\* bound: the user selects a file, or clears the selection, MaxSelects times
MaxSelects == 3

InitUi ==
  /\ payPayCsv = EmptyCsv
  /\ mfmeCsvs = <<>>
  /\ extracted = Pending
  /\ exclusion = Pending
  /\ filtered = Pending
  /\ refiltered = Pending
  /\ chunks = Pending
  /\ rechunked = Pending
  /\ objects = Pending
  /\ dateCall = NoCall
  /\ ui = [payPayFile |-> Null, paypayStats |-> Null, error |-> "",
           data |-> Null, reads |-> {}, selects |-> 0]

\* handleFileChange up to its await: the selection is stored; without a file
\* the parent's data, the stats and the error are cleared, with one the error
\* is cleared and the read of the file starts
handleFileChange ==
  \* the File objects the user can select
  LET Files ==
        {[name |-> <<"a">>, content |-> PayPayText(<<ExpenseRow>>)],
         [name |-> <<"b">>, content |-> PayPayText(<<CombinedRow, ExpenseRow>>)],
         [name |-> <<"c">>, content |-> EmptyCsv],
         [name |-> <<"d">>,
          content |-> [PayPayText(<<ExpenseRow>>) EXCEPT !.lines[1] = Append(@, <<"x">>)]]}
  IN
  /\ ui.selects < MaxSelects
  /\ \E file \in Files \cup {Null} :
       ui' = IF file = Null
             THEN [ui EXCEPT !.payPayFile = Null, !.data = Null,
                             !.paypayStats = Null, !.error = "",
                             !.selects = @ + 1]
             ELSE [ui EXCEPT !.payPayFile = file, !.error = "",
                             !.reads = @ \cup {[id |-> ui.selects + 1,
                                                file |-> file]},
                             !.selects = @ + 1]
  /\ UNCHANGED <<payPayCsv, mfmeCsvs, extracted, exclusion, filtered, refiltered,
                 chunks, rechunked, objects, dateCall>>

\* the lines of handleFileChange after `const result = ...` and its catch
\* block, for the invocation that read `read`
storeResult(read, result) ==
  IF result = Threw
  THEN [ui EXCEPT !.error = "Invalid Record Length",
                  !.data = Null, !.reads = @ \ {read}]
  ELSE IF Len(result.transactions) = 0
  THEN [ui EXCEPT !.error = "no transactions",
                  !.data = Null, !.reads = @ \ {read}]
  ELSE [ui EXCEPT !.paypayStats = result.stats,
                  !.data = result, !.reads = @ \ {read}]

\* handleFileChange after its await: the read of one invocation completes, in
\* whatever order the reads complete, and the invocation stores its result
readCompletes ==
  /\ \E read \in ui.reads :
       \E result \in {extractTransactionsFromPayPayCsv(read.file.content)} :
         ui' = storeResult(read, result)
  /\ UNCHANGED <<payPayCsv, mfmeCsvs, extracted, exclusion, filtered, refiltered,
                 chunks, rechunked, objects, dateCall>>

NextUi == handleFileChange \/ readCompletes

SpecUi == InitUi /\ [][NextUi]_vars

----------------------------------------------------------------------------
(* Vocabulary of the properties *)

\* extractTransactionsFromPayPayCsv has returned a result
ExtractDone == extracted \notin {Pending, Threw}

\* createMfmeExclusionSet has returned a result
ExclusionDone == exclusion \notin {Pending, Threw}

\* filterTransactions has returned a result
FilterReturned == filtered # Pending /\ ~filtered.threw

ChunkDone == chunks # Pending

\* the records of the source text, and of all the aggregator texts in order
SourceRecords == parse(payPayCsv)

AggregatorRecords ==
  LET F[i \in 0..Len(mfmeCsvs)] ==
        IF i = 0 THEN <<>> ELSE F[i - 1] \o parse(mfmeCsvs[i])
  IN  F[Len(mfmeCsvs)]

\* the index of the source row a Transaction comes from: its transaction
\* number (a text without that column has a single row)
SourceIndex(tx) ==
  IF ColTxNo \in DOMAIN tx.record THEN Num(tx.record[ColTxNo]) ELSE 1

\* the Transactions extracted from source row i, in order
TransactionsOfRow(i) ==
  SelectSeq(extracted.transactions, LAMBDA t : SourceIndex(t) = i)

\* the Transactions with payment method n that are not excluded, in order
Survivors(n) ==
  SelectSeq(extracted.transactions,
            LAMBDA t : t.paymentMethod = n /\ t.key \notin exclusion.exclusionSet)

\* the Date of a non-empty set with the least, and the greatest, time value
Earliest(dates) == CHOOSE d \in dates : \A e \in dates : d.time <= e.time

Latest(dates) == CHOOSE d \in dates : \A e \in dates : d.time >= e.time

----------------------------------------------------------------------------
(* Claims *)

\* C1: every group of N >= 1 rows gets exactly ceil(N/100) chunks; all but the
\* last have count 100, the last has count N mod 100, or 100 when 100 divides N.
C1_ChunkSizeLaw ==
  LET CeilDiv(n, d) == (n + d - 1) \div d
  IN
  ChunkDone =>
    \A n \in DOMAIN filtered.groupedRecords :
      LET N == Len(filtered.groupedRecords[n])
      IN  N >= 1 =>
            /\ n \in DOMAIN chunks
            /\ Len(chunks[n]) = CeilDiv(N, 100)
            /\ \A k \in 1..(Len(chunks[n]) - 1) : chunks[n][k].count = 100
            /\ chunks[n][Len(chunks[n])].count =
                 (IF N % 100 = 0 THEN 100 ELSE N % 100)

\* a group of more than 200 rows was cut into three chunks, the last one short
C1_Witness ==
  /\ ChunkDone
  /\ \E n \in DOMAIN chunks :
       /\ Len(chunks[n]) = 3
       /\ chunks[n][3].count < 100

\* the signed amount of a Transaction of the source record src: the amount of
\* its token (which line 184 stores in the outgoing column) when the row was
\* split, else the amount of the row's direction; commas removed, negative
\* for an expense (an outgoing amount that is not the placeholder)
SignedAmount(tx, src) ==
  LET expense == Get(src, ColOut) # <<"-">>
      raw     == IF Len(matchAll(src[ColMethod], 1)) > 0 THEN tx.record[ColOut]
                 ELSE IF expense THEN src[ColOut] ELSE src[ColIn]
      amount  == ReplaceAll(raw, ",", <<>>)
  IN  IF expense THEN <<"-">> \o amount ELSE amount

\* the aggregator record r describes the Transaction tx of source record src:
\* same date, signed amount, institution / method and content / counterparty
Describes(r, tx, src) ==
  /\ Get(src, ColTxDate) # Undef
  /\ Get(src, ColPayee) # Undef
  /\ Get(r, ColMfDate) = SplitFirst(src[ColTxDate], " ")
  /\ Get(r, ColAmount) = SignedAmount(tx, src)
  /\ Get(r, ColInst) = tx.paymentMethod
  /\ Get(r, ColContent) = src[ColPayee]

\* the Transaction's row is in no group filterTransactions returned
Dropped(tx) ==
  \A n \in DOMAIN filtered.groupedRecords :
    tx.record \notin Range(filtered.groupedRecords[n])

\* C2 (as claimed): a Transaction described by an aggregator row whose
\* inclusion flag is not "0" has its key in the exclusion set, and is dropped.
C2_DescribedIsExcluded ==
  (ExtractDone /\ ExclusionDone) =>
    LET src == SourceRecords
        agg == AggregatorRecords
    IN  \A i \in 1..Len(extracted.transactions) : \A j \in 1..Len(agg) :
          LET tx == extracted.transactions[i]
          IN  (Get(agg[j], ColCalc) # <<"0">> /\ Describes(agg[j], tx, src[SourceIndex(tx)]))
                => /\ tx.key \in exclusion.exclusionSet
                   /\ FilterReturned => Dropped(tx)

\* C2 (amended): a Transaction described by an aggregator row whose inclusion
\* flag is not "0" and whose date, amount, institution and content are all
\* non-empty has its key in the exclusion set, and appears in no group that
\* filterTransactions returns.
C2_DescribedNonEmptyIsExcluded ==
  (ExtractDone /\ ExclusionDone) =>
    LET src == SourceRecords
        agg == AggregatorRecords
    IN  \A i \in 1..Len(extracted.transactions) : \A j \in 1..Len(agg) :
          LET tx == extracted.transactions[i]
              r  == agg[j]
          IN  (/\ Get(r, ColCalc) # <<"0">>
               /\ Get(r, ColMfDate) # <<>> /\ Get(r, ColAmount) # <<>>
               /\ Get(r, ColInst) # <<>> /\ Get(r, ColContent) # <<>>
               /\ Describes(r, tx, src[SourceIndex(tx)]))
                => /\ tx.key \in exclusion.exclusionSet
                   /\ FilterReturned => Dropped(tx)

\* a sibling of a split row is described by an included aggregator row and
\* was dropped by the filter
C2_Witness ==
  /\ FilterReturned
  /\ filtered.duplicates >= 1
  /\ LET src == SourceRecords
         agg == AggregatorRecords
     IN  \E i \in 1..Len(extracted.transactions) : \E j \in 1..Len(agg) :
           LET tx == extracted.transactions[i]
           IN  /\ Len(TransactionsOfRow(SourceIndex(tx))) = 2
               /\ Get(agg[j], ColCalc) # <<"0">>
               /\ Get(agg[j], ColContent) # <<>>
               /\ Describes(agg[j], tx, src[SourceIndex(tx)])
               /\ tx.key \in exclusion.exclusionSet
               /\ Dropped(tx)

\* the combined-method tokens matched in a record's payment-method field
TokensOf(record) ==
  IF Get(record, ColMethod) = Undef THEN <<>>
  ELSE matchAll(record[ColMethod], 1)

\* C3: every source row yields as many Transactions as combined-method tokens
\* matched in its payment-method field, or 1 if no token matched and a usable
\* amount and method exist, or 0 otherwise.
C3_TransactionsPerRow ==
  \* the record has a payment method and an amount in the column of its
  \* direction that is non-empty once its commas are removed
  LET UsableAmountAndMethod(record) ==
        LET amountValue == IF Get(record, ColOut) # <<"-">>
                           THEN Get(record, ColOut) ELSE Get(record, ColIn)
        IN  /\ ~Falsy(Get(record, ColMethod))
            /\ amountValue # Undef
            /\ ReplaceAll(amountValue, ",", <<>>) # <<>>
  IN
  ExtractDone =>
    LET src == SourceRecords
    IN  \A i \in 1..Len(src) :
          Len(TransactionsOfRow(i)) =
            IF Len(TokensOf(src[i])) > 0 THEN Len(TokensOf(src[i]))
            ELSE IF UsableAmountAndMethod(src[i]) THEN 1 ELSE 0

\* C4: every Transaction of a source row whose payment-method field matches
\* tokens has a row whose payment-method column holds a token's name and whose
\* amount column of the row's direction (outgoing for an expense, incoming for
\* an income) holds that token's amount.
C4_SplitRowHoldsTokenAmount ==
  ExtractDone =>
    LET src == SourceRecords
    IN  \A k \in 1..Len(extracted.transactions) :
          LET tx     == extracted.transactions[k]
              s      == src[SourceIndex(tx)]
              tokens == TokensOf(s)
              column == IF Get(s, ColOut) # <<"-">> THEN ColOut ELSE ColIn
          IN  Len(tokens) > 0 =>
                \E t \in 1..Len(tokens) :
                  /\ Get(tx.record, ColMethod) = Trim(tokens[t].name)
                  /\ Get(tx.record, column) = ReplaceAll(tokens[t].amount, ",", <<>>)

\* the Transaction's row is in the group of its payment method
Kept(tx) ==
  /\ tx.paymentMethod \in DOMAIN filtered.groupedRecords
  /\ tx.record \in Range(filtered.groupedRecords[tx.paymentMethod])

\* C5: when exactly one of the sibling Transactions of a source row has its
\* key in the exclusion set, only that sibling is dropped, every other sibling
\* is in the group of its own payment method, and the duplicate count is one
\* more than the count filterTransactions gives without the row's siblings.
C5_SiblingsDecidedSeparately ==
  FilterReturned =>
    \A i \in 1..Len(SourceRecords) :
      LET siblings == TransactionsOfRow(i)
          hit      == {k \in 1..Len(siblings) :
                         siblings[k].key \in exclusion.exclusionSet}
          others   == SelectSeq(extracted.transactions,
                                LAMBDA t : SourceIndex(t) # i)
      IN  (Len(siblings) >= 2 /\ Cardinality(hit) = 1) =>
            /\ \A k \in 1..Len(siblings) :
                 IF k \in hit THEN Dropped(siblings[k]) ELSE Kept(siblings[k])
            /\ filtered.duplicates =
                 filterTransactions(others, exclusion.exclusionSet).duplicates + 1

\* one sibling of a split row was dropped and the other kept
C5_Witness ==
  /\ FilterReturned
  /\ \E i \in 1..Len(SourceRecords) :
       LET siblings == TransactionsOfRow(i)
       IN  /\ Len(siblings) = 2
           /\ \E k \in 1..2 :
                /\ siblings[k].key \in exclusion.exclusionSet
                /\ Dropped(siblings[k])
                /\ siblings[3 - k].key \notin exclusion.exclusionSet
                /\ Kept(siblings[3 - k])
                /\ Len(filtered.groupedRecords[siblings[3 - k].paymentMethod]) = 1

\* the total number of rows in the groups named in the set names
RECURSIVE SumOfSizes(_, _)
SumOfSizes(g, names) ==
  IF names = {} THEN 0
  ELSE LET n == CHOOSE x \in names : TRUE
       IN  Len(g[n]) + SumOfSizes(g, names \ {n})

\* C6: filterTransactions returns for any payment-method string; it drops a
\* Transaction iff its key is in the exclusion set, duplicates is the number
\* dropped, every other Transaction's row is exactly once in the group of its
\* paymentMethod and in no other group, and duplicates plus the group sizes is
\* the number of input Transactions.
C6_FilterPartitionsInput ==
  filtered # Pending =>
    /\ ~filtered.threw
    /\ LET txs == extracted.transactions
           set == exclusion.exclusionSet
           g   == filtered.groupedRecords
       IN  /\ filtered.duplicates =
                Cardinality({k \in 1..Len(txs) : txs[k].key \in set})
           /\ \A k \in 1..Len(txs) :
                IF txs[k].key \in set THEN Dropped(txs[k])
                ELSE /\ txs[k].paymentMethod \in DOMAIN g
                     /\ \A n \in DOMAIN g :
                          Cardinality({j \in 1..Len(g[n]) : g[n][j] = txs[k].record})
                            = (IF n = txs[k].paymentMethod THEN 1 ELSE 0)
           /\ filtered.duplicates + SumOfSizes(g, DOMAIN g) = Len(txs)

\* the four fields of an aggregator record joined as the key is
RowKey(r) ==
  TemplateStr(Get(r, ColMfDate)) \o <<"_">> \o TemplateStr(Get(r, ColAmount))
    \o <<"_">> \o TemplateStr(Get(r, ColInst)) \o <<"_">>
    \o TemplateStr(Get(r, ColContent))

\* record r has the four key fields and an inclusion flag other than "0"
Included(r) ==
  /\ ~Falsy(Get(r, ColMfDate)) /\ ~Falsy(Get(r, ColAmount))
  /\ ~Falsy(Get(r, ColInst)) /\ ~Falsy(Get(r, ColContent))
  /\ Get(r, ColCalc) # <<"0">>

\* C7: an aggregator row with inclusion flag "0" is counted in Stats.count
\* but adds no key: unless another, included row yields the same key, that
\* key is not in the exclusion set, and a Transaction with that key is kept.
C7_FlagZeroAddsNoKey ==
  ExclusionDone =>
    LET agg == AggregatorRecords
    IN  /\ exclusion.stats.count >=
             Cardinality({j \in 1..Len(agg) : Get(agg[j], ColCalc) = <<"0">>})
        /\ \A j \in 1..Len(agg) :
             (/\ Get(agg[j], ColCalc) = <<"0">>
              /\ \A o \in 1..Len(agg) :
                   ~(Included(agg[o]) /\ RowKey(agg[o]) = RowKey(agg[j])))
               => /\ RowKey(agg[j]) \notin exclusion.exclusionSet
                  /\ FilterReturned =>
                       \A k \in 1..Len(extracted.transactions) :
                         extracted.transactions[k].key = RowKey(agg[j])
                           => Kept(extracted.transactions[k])

\* a row with flag "0" was counted, its key is not in the set and the
\* Transaction with that key was kept
C7_Witness ==
  /\ FilterReturned
  /\ LET agg == AggregatorRecords
     IN  \E j \in 1..Len(agg) :
           /\ Get(agg[j], ColCalc) = <<"0">>
           /\ exclusion.stats.count = Len(agg)
           /\ RowKey(agg[j]) \notin exclusion.exclusionSet
           /\ \E k \in 1..Len(extracted.transactions) :
                /\ extracted.transactions[k].key = RowKey(agg[j])
                /\ Kept(extracted.transactions[k])

\* C8: Stats.count of createMfmeExclusionSet is the number of data rows over
\* all the texts, and its range is the earliest and the latest parsed date
\* over all the rows with a parseable date, the rows that add no key included.
C8_StatsCoverEveryRow ==
  \* the instants parseDate gives for the date column of the records
  LET ParsedDates(records) ==
        {parseDate(Get(records[j], ColMfDate)) : j \in 1..Len(records)} \ {Null}
  IN
  ExclusionDone =>
    LET agg   == AggregatorRecords
        dates == ParsedDates(agg)
    IN  /\ exclusion.stats.count = Len(agg)
        /\ exclusion.stats.startDate = (IF dates = {} THEN Null ELSE Earliest(dates))
        /\ exclusion.stats.endDate = (IF dates = {} THEN Null ELSE Latest(dates))

\* two texts, and the latest date is that of a row that adds no key
C8_Witness ==
  /\ ExclusionDone
  /\ Len(mfmeCsvs) = 2
  /\ Len(mfmeCsvs[1].lines) = 1
  /\ Len(mfmeCsvs[2].lines) = 1
  /\ exclusion.stats.count = 2
  /\ exclusion.stats.startDate # Null
  /\ exclusion.stats.startDate.time < exclusion.stats.endDate.time
  /\ LET agg == AggregatorRecords
     IN  \E j \in 1..2 :
           /\ ~Included(agg[j])
           /\ parseDate(Get(agg[j], ColMfDate)) = exclusion.stats.endDate
           /\ parseDate(Get(agg[3 - j], ColMfDate)) = exclusion.stats.startDate

\* the payment methods of the extracted Transactions
Methods == {extracted.transactions[k].paymentMethod :
              k \in 1..Len(extracted.transactions)}

\* C9: the groups filterTransactions returns and the chunk lists
\* createChunksFromGroupedRecords returns are non-empty and belong to methods
\* with a Transaction that is not excluded; when every Transaction is excluded
\* or the source is empty both mappings are empty.
C9_NoEntryForExcludedMethod ==
  FilterReturned =>
    /\ \A n \in DOMAIN filtered.groupedRecords :
         /\ Len(filtered.groupedRecords[n]) >= 1
         /\ Len(Survivors(n)) >= 1
    /\ ChunkDone =>
         \A n \in DOMAIN chunks :
           /\ Len(chunks[n]) >= 1
           /\ \A c \in 1..Len(chunks[n]) : chunks[n][c].count >= 1
           /\ Len(Survivors(n)) >= 1
    /\ (\A n \in Methods : Len(Survivors(n)) = 0) =>
         /\ DOMAIN filtered.groupedRecords = {}
         /\ ChunkDone => DOMAIN chunks = {}

\* a method with all its Transactions excluded next to a method that has a
\* chunk
C9_Witness ==
  /\ ChunkDone
  /\ \E n \in Methods, m \in Methods :
       /\ Len(Survivors(n)) = 0
       /\ n \notin DOMAIN filtered.groupedRecords
       /\ n \notin DOMAIN chunks
       /\ m \in DOMAIN chunks

\* C10: for every payment method, the group of filterTransactions holds the
\* rows of the Transactions of that method that are not excluded, each once
\* and in extraction order, and the lines of the method's chunks, chunk after
\* chunk, are those same rows in the same order.
C10_ChunksKeepRowsInOrder ==
  \* the fields of a record in the order of the headers, an absent one empty
  LET LineOf(record, headers) ==
        [h \in 1..Len(headers) |->
           IF Get(record, headers[h]) = Undef THEN <<>> ELSE record[headers[h]]]
  IN
  \* the data lines of a chunk list, chunk after chunk
  LET ChunkLines(cs) ==
        LET F[c \in 0..Len(cs)] ==
              IF c = 0 THEN <<>> ELSE F[c - 1] \o cs[c].data.lines
        IN  F[Len(cs)]
  IN
  ChunkDone =>
    \A n \in Methods \cup DOMAIN chunks \cup DOMAIN filtered.groupedRecords :
      LET kept  == Survivors(n)
          group == IF n \in DOMAIN filtered.groupedRecords
                   THEN filtered.groupedRecords[n] ELSE <<>>
          lines == IF n \in DOMAIN chunks THEN ChunkLines(chunks[n]) ELSE <<>>
      IN  /\ Len(group) = Len(kept)
          /\ Len(lines) = Len(kept)
          /\ \A k \in 1..Len(kept) :
               /\ group[k] = kept[k].record
               /\ lines[k] = LineOf(kept[k].record, extracted.headers)

\* a method whose surviving rows fill more than one chunk, with Transactions
\* of other methods excluded and split siblings among the rows
C10_Witness ==
  /\ ChunkDone
  /\ filtered.duplicates > 0
  /\ \E n \in DOMAIN chunks :
       /\ Len(chunks[n]) >= 2
       /\ Len(Survivors(n)) > 100
       /\ \E k \in 1..Len(extracted.transactions) :
            /\ extracted.transactions[k].paymentMethod = n
            /\ Len(TransactionsOfRow(SourceIndex(extracted.transactions[k]))) = 2

\* C11: a source row whose payment-method field is written from tokens, one
\* of them with separator commas in its amount, yields one Transaction per
\* token, in order; its row's method is the token's name, the amount in its
\* row and in its key is the token's amount without the commas.
C11_CommaAmountIsOneToken ==
  \* token lists of one or two tokens, amounts with and without separators
  LET TokenLists ==
        LET tokens == [name : {MethodA, MethodB},
                       amount : {<<"1">>, <<"9">>, <<"3">>, <<"2", ",", "5">>,
                                 <<"2", ",", "5", "9", "9">>}]
        IN  {<<t>> : t \in tokens} \cup {<<t, u>> : t \in tokens, u \in tokens}
  IN
  \* a payment-method field written from a list of tokens:
  \* `name (amount Y)` joined by a comma and a space
  LET JoinTokens(ts) ==
        LET F[k \in 0..Len(ts)] ==
              IF k = 0 THEN <<>>
              ELSE (IF k = 1 THEN <<>> ELSE F[k - 1] \o <<",", " ">>)
                     \o ts[k].name \o <<" ", "(">> \o ts[k].amount \o <<"Y", ")">>
        IN  F[Len(ts)]
  IN
  ExtractDone =>
    LET src == SourceRecords
    IN  \A i \in 1..Len(src) : \A ts \in TokenLists :
          (/\ Get(src[i], ColMethod) = JoinTokens(ts)
           /\ \E k \in 1..Len(ts) : Includes(ts[k].amount, ","))
            => LET txs == TransactionsOfRow(i)
               IN  /\ Len(txs) = Len(ts)
                   /\ \A k \in 1..Len(ts) :
                        LET digits == SelectSeq(ts[k].amount, LAMBDA c : c \in Digits)
                        IN  /\ txs[k].paymentMethod = ts[k].name
                            /\ Get(txs[k].record, ColMethod) = ts[k].name
                            /\ Get(txs[k].record, ColOut) = digits
                            /\ txs[k].key =
                                 SplitFirst(src[i][ColTxDate], " ") \o <<"_">>
                                   \o (IF src[i][ColOut] # <<"-">> THEN <<"-">> ELSE <<>>)
                                   \o digits \o <<"_">> \o ts[k].name \o <<"_">>
                                   \o src[i][ColPayee]

\* the row `B (1Y), A (2,599Y)` yielded two Transactions, the second with
\* amount 2599
C11_Witness ==
  /\ ExtractDone
  /\ \E i \in 1..Len(SourceRecords) :
       /\ Get(SourceRecords[i], ColMethod) = MethodCombinedComma
       /\ Len(TransactionsOfRow(i)) = 2
       /\ TransactionsOfRow(i)[2].record[ColOut] = <<"2", "5", "9", "9">>
       /\ TransactionsOfRow(i)[2].paymentMethod = MethodA

\* C12: Stats.count of extractTransactionsFromPayPayCsv is the number of
\* source data rows, whatever the number of Transactions of each row, and the
\* Stats range is the earliest and latest parsed transaction date over all
\* the source rows.
C12_StatsCountSourceRows ==
  \* the instants parseDate gives for the transaction dates of the records
  LET ParsedTxDates(records) ==
        {parseDate(Get(records[j], ColTxDate)) : j \in 1..Len(records)} \ {Null}
  IN
  ExtractDone =>
    LET src   == SourceRecords
        dates == ParsedTxDates(src)
    IN  /\ extracted.stats.count = Len(src)
        /\ extracted.stats.startDate = (IF dates = {} THEN Null ELSE Earliest(dates))
        /\ extracted.stats.endDate = (IF dates = {} THEN Null ELSE Latest(dates))

\* two rows counted: one split into two Transactions, one that yields none
\* and has the earliest date
C12_Witness ==
  /\ ExtractDone
  /\ extracted.stats.count = 2
  /\ extracted.stats.startDate # Null
  /\ extracted.stats.startDate.time < extracted.stats.endDate.time
  /\ \E i \in 1..2 :
       /\ Len(TransactionsOfRow(i)) = 2
       /\ Len(TransactionsOfRow(3 - i)) = 0
       /\ parseDate(Get(SourceRecords[3 - i], ColTxDate)) = extracted.stats.startDate

\* C13: the startDate and endDate of every chunk are the earliest and the
\* latest parsed transaction date of the chunk's own rows, and both are null
\* when no row of the chunk has a parseable date.
C13_ChunkRangeOfOwnRows ==
  \* the instants parseDate gives for the transaction-date fields of the data
  \* lines of a chunk's text
  LET ChunkDates(chunk) ==
        IF ColTxDate \in Range(chunk.data.header)
        THEN {parseDate(chunk.data.lines[j][ColumnIndex(chunk.data.header, ColTxDate)]) :
                j \in 1..Len(chunk.data.lines)} \ {Null}
        ELSE {}
  IN
  ChunkDone =>
    \A n \in DOMAIN chunks : \A c \in 1..Len(chunks[n]) :
      LET dates == ChunkDates(chunks[n][c])
      IN  /\ chunks[n][c].startDate = (IF dates = {} THEN Null ELSE Earliest(dates))
          /\ chunks[n][c].endDate = (IF dates = {} THEN Null ELSE Latest(dates))

\* the first chunk of a group starts earlier than the second chunk of the
\* same group, whose range is a single instant
C13_Witness ==
  /\ ChunkDone
  /\ \E n \in DOMAIN chunks :
       /\ Len(chunks[n]) >= 2
       /\ chunks[n][1].startDate # Null
       /\ chunks[n][1].startDate.time < chunks[n][1].endDate.time
       /\ chunks[n][2].startDate = chunks[n][1].endDate
       /\ chunks[n][2].endDate = chunks[n][1].endDate

IsDateShape(v) ==
  /\ Len(v) = 10
  /\ \A i \in 1..10 : IF i \in {5, 8} THEN v[i] = "/" ELSE v[i] \in Digits

\* the string has the shape YYYY/MM/DD HH:mm:ss
IsDateTimeShape(v) ==
  /\ Len(v) = 19
  /\ IsDateShape(SubSeq(v, 1, 10))
  /\ v[11] = " "
  /\ \A i \in 12..19 : IF i \in {14, 17} THEN v[i] = ":" ELSE v[i] \in Digits

\* the number written by the characters from..to of a string
Field(v, from, to) == Num(SubSeq(v, from, to))

\* a string of one of the two shapes names a day of the calendar and, if it
\* has one, a time of the day
IsCalendarValue(v) ==
  /\ Field(v, 6, 7) \in 1..12
  /\ Field(v, 9, 10) \in 1..DaysInMonth(Field(v, 1, 4), Field(v, 6, 7))
  /\ IsDateTimeShape(v) =>
       /\ Field(v, 12, 13) \in 0..23
       /\ Field(v, 15, 16) \in 0..59
       /\ Field(v, 18, 19) \in 0..59

\* C15: parseDate of a YYYY/MM/DD HH:mm:ss string is the instant of that
\* wall-clock time at UTC+9, that is 9 hours earlier in UTC, and parseDate of a
\* YYYY/MM/DD string is 15:00 UTC of the day before; nothing of the host
\* enters the result.
C15_ParseDateIsJST ==
  \* days from 1970-01-01 to the day y-m-d, counted year by year and month by
  \* month
  LET DayNumber(y, m, d) ==
        LET Y[k \in 1970..y] ==
              IF k = 1970 THEN 0 ELSE Y[k - 1] + (IF IsLeap(k - 1) THEN 366 ELSE 365)
            M[k \in 1..m] ==
              IF k = 1 THEN 0 ELSE M[k - 1] + DaysInMonth(y, k - 1)
        IN  Y[y] + M[m] + d - 1
  IN
  (/\ dateCall.fn = "parseDate"
   /\ dateCall.dateValue # Undef
   /\ IsDateShape(dateCall.dateValue) \/ IsDateTimeShape(dateCall.dateValue)
   /\ IsCalendarValue(dateCall.dateValue)) =>
    LET v   == dateCall.dateValue
        day == DayNumber(Field(v, 1, 4), Field(v, 6, 7), Field(v, 9, 10))
    IN  /\ dateCall.result # Null
        /\ IsDateTimeShape(v) =>
             dateCall.result.time + 9 * 3600 =
               day * 86400 + Field(v, 12, 13) * 3600 + Field(v, 15, 16) * 60
                 + Field(v, 18, 19)
        /\ IsDateShape(v) =>
             dateCall.result.time = (day - 1) * 86400 + 15 * 3600

\* parseDate("2025/10/24 10:59:25") is 2025-10-24T01:59:25.000Z
C15_Witness ==
  /\ dateCall.fn = "parseDate"
  /\ dateCall.dateValue = DateTime1
  /\ dateCall.result = [time |-> BaseTime]

\* C16: parseDate returns null for undefined, for the empty string, for a
\* string of neither the shape YYYY/MM/DD HH:mm:ss nor the shape YYYY/MM/DD,
\* and for a string of one of the shapes that is no date of the calendar.
C16_ParseDateNullOtherwise ==
  dateCall.fn = "parseDate" =>
    LET v == dateCall.dateValue
    IN  (\/ v = Undef
         \/ v = <<>>
         \/ ~(IsDateShape(v) \/ IsDateTimeShape(v))
         \/ ~IsCalendarValue(v))
          => dateCall.result = Null

\* C17: the characters of every chunk's text, read again by csv-parse, give
\* the chunk's header, exactly chunk.count rows, and in every row every field
\* equal to that field of the chunk's row at the same place (fields with
\* commas, quotes and line breaks included).
C17_ChunkTextReadsBack ==
  ChunkDone =>
    \A n \in DOMAIN chunks : \A c \in 1..Len(chunks[n]) :
      LET chunk == chunks[n][c]
          csv   == parseText(Text(chunk.data))
          rows  == parse(csv)
      IN  /\ ~csv.error
          /\ csv.header = extracted.headers
          /\ Len(rows) = chunk.count
          /\ \A k \in 1..Len(rows) : \A h \in DOMAIN rows[k] :
               rows[k][h] =
                 Get(filtered.groupedRecords[n][(c - 1) * chunkSize + k], h)

\* a chunk with a row whose counterparty holds a comma, a quote and line
\* breaks
C17_Witness ==
  /\ ChunkDone
  /\ \E n \in DOMAIN chunks :
       /\ chunks[n][1].count = 2
       /\ Get(filtered.groupedRecords[n][2], ColPayee) = StoreQuoted
       /\ \E i \in 1..Len(Text(chunks[n][1].data)) :
            Text(chunks[n][1].data)[i] = "\""

----------------------------------------------------------------------------
\* C18: filterTransactions leaves the Transaction list, every Transaction's
\* row and the key set it is given as they were, and a second call on the same
\* two objects returns what the first returned: the same duplicate count and
\* the same groups with the same rows in the same order.
C18_FilterLeavesArgumentsAlone ==
  /\ [](refiltered # Pending => refiltered = filtered)
  /\ [][(filtered' # filtered \/ refiltered' # refiltered)
          => UNCHANGED <<extracted, exclusion>>]_vars

\* a second call over a list of which the first dropped a row and kept rows
C18_Witness ==
  /\ refiltered # Pending
  /\ ~refiltered.threw
  /\ refiltered.duplicates > 0
  /\ \E m \in DOMAIN refiltered.groupedRecords : Len(refiltered.groupedRecords[m]) > 1

----------------------------------------------------------------------------
\* C19: a text with no data row (empty, or a header line only) is an error at
\* no stage: it is read without an error; extractTransactionsFromPayPayCsv
\* returns no Transaction, count 0, a null date range and an empty header
\* list; createMfmeExclusionSet, given such texts or no text at all, returns an
\* empty key set, count 0 and a null date range; and
\* createChunksFromGroupedRecords returns an empty mapping for empty groups.
C19_EmptyInputsAreNoError ==
  /\ parseText(<<>>) = [error |-> FALSE, header |-> <<>>, lines |-> <<>>]
  /\ (ExtractDone /\ payPayCsv.lines = <<>>) =>
       /\ parseText(Text(payPayCsv)) =
            [error |-> FALSE, header |-> payPayCsv.header, lines |-> <<>>]
       /\ extracted = [transactions |-> <<>>,
                       stats |-> [count |-> 0, startDate |-> Null, endDate |-> Null],
                       headers |-> <<>>]
  /\ (exclusion # Pending /\ \A f \in 1..Len(mfmeCsvs) : mfmeCsvs[f].lines = <<>>) =>
       /\ \A f \in 1..Len(mfmeCsvs) :
            parseText(Text(mfmeCsvs[f])) =
              [error |-> FALSE, header |-> mfmeCsvs[f].header, lines |-> <<>>]
       /\ exclusion = [exclusionSet |-> {},
                       stats |-> [count |-> 0, startDate |-> Null, endDate |-> Null]]
  /\ (ChunkDone /\ DOMAIN filtered.groupedRecords = {}) => DOMAIN chunks = {}

\* a finished run over a header-only source text, an empty aggregator text
\* and a header-only one
C19_Witness ==
  /\ ChunkDone
  /\ payPayCsv = PayPayText(<<>>)
  /\ mfmeCsvs = <<EmptyCsv, MfmeText(<<>>)>>
  /\ extracted.headers = <<>>
  /\ exclusion.exclusionSet = {}
  /\ DOMAIN chunks = {}

----------------------------------------------------------------------------
\* the row has no payment-method value
NoMethod(record) == Get(record, ColMethod) \in {Undef, <<>>}

\* the amount column of the row's direction is absent, empty or holds only
\* the placeholder
NoUsableAmount(record) ==
  LET amountValue == IF isExpense(record) THEN Get(record, ColOut)
                     ELSE Get(record, ColIn)
  IN  amountValue \in {Undef, <<>>, <<"-">>}

\* C20: a source row with no payment-method value, or whose amount of its
\* direction is absent, empty or only the placeholder "-" (both amount columns
\* holding the placeholder included), yields no Transaction, and every other
\* row of the file yields the Transactions it yields on its own.
C20_UnusableRowYieldsNothing ==
  ExtractDone =>
    LET src == SourceRecords
    IN  \A i \in 1..Len(src) :
          IF NoMethod(src[i]) \/ NoUsableAmount(src[i])
          THEN TransactionsOfRow(i) = <<>>
          ELSE Len(TransactionsOfRow(i)) = Len(transactionsOfRecord(src[i]))

----------------------------------------------------------------------------
\* C21: no stage raises an exception because of a malformed data row (fewer
\* or more fields than the header, an unparseable date, an empty or unusual
\* payment-method string, a missing column): extractTransactionsFromPayPayCsv,
\* createMfmeExclusionSet and filterTransactions each return a result.
C21_NoStageRaises ==
  /\ extracted # Threw
  /\ exclusion # Threw
  /\ filtered # Pending => ~filtered.threw

----------------------------------------------------------------------------
\* C22: every chunk createChunksFromGroupedRecords emits has imported = false,
\* also when chunks of an earlier result are marked as imported; the stages
\* set no flag, so a flag is set by the caller's mark only.
C22_EmittedChunksNotImported ==
  /\ [](ChunkDone =>
         Imported(createChunksFromGroupedRecords(filtered.groupedRecords,
                                                 extracted.headers)) = {})
  /\ [](Imported(rechunked) = {})
  /\ [][chunks # Pending =>
          (Imported(chunks') \subseteq Imported(chunks) \/ MarkAsImported)]_vars

\* the chunker has run again while a chunk of the earlier result is marked
C22_Witness ==
  /\ Imported(chunks) # {}
  /\ rechunked # Pending
  /\ DOMAIN rechunked = DOMAIN chunks
  /\ \E n \in DOMAIN rechunked : Len(rechunked[n]) > 1

----------------------------------------------------------------------------
\* C23: a source row that has a payment-method value matching no
\* combined-method token, a usable amount, a date and a counterparty yields
\* exactly one Transaction; its paymentMethod is the whole field and its key is
\* dateOnly_signedAmount_method_counterparty, where dateOnly is the date up to
\* its first space and signedAmount is "-" and the outgoing amount without
\* commas when the outgoing column is not "-", and else the incoming amount
\* without commas.
C23_SingleMethodRowKey ==
  ExtractDone =>
    LET src == SourceRecords
        txs == extracted.transactions
        row == Tuple([k \in 1..Len(txs) |-> SourceIndex(txs[k])])
    IN  \A i \in 1..Len(src) :
          LET r        == src[i]
              own      == {k \in 1..Len(txs) : row[k] = i}
              date     == Get(r, ColTxDate)
              payee    == Get(r, ColPayee)
              method   == Get(r, ColMethod)
              out      == Get(r, ColOut)
              noCommas(a) == SelectSeq(a, LAMBDA ch : ch # ",")
              signed   == IF out # <<"-">> THEN <<"-">> \o noCommas(out)
                          ELSE noCommas(Get(r, ColIn))
              dateOnly == CHOOSE p \in {SubSeq(date, 1, k) : k \in 0..Len(date)} :
                            /\ " " \notin Range(p)
                            /\ Len(p) = Len(date) \/ date[Len(p) + 1] = " "
          IN  (/\ ~NoMethod(r)
               /\ TokensOf(r) = <<>>
               /\ ~NoUsableAmount(r)
               /\ date # Undef
               /\ payee # Undef) =>
                /\ Cardinality(own) = 1
                /\ \A k \in own :
                     /\ txs[k].paymentMethod = method
                     /\ txs[k].key =
                          dateOnly \o <<"_">> \o signed \o <<"_">> \o method
                            \o <<"_">> \o payee

\* an expense with a comma in its amount, and an income, each with its key
C23_Witness ==
  /\ ExtractDone
  /\ payPayCsv = PayPayText(<<Row(DateTime1, AmtComma, Dash, Store, MethodA),
                              Row(DateTime1, Dash, Amt50, Store, MethodA)>>)
  /\ Len(extracted.transactions) = 2
  /\ extracted.transactions[1].key =
       Date1 \o <<"_", "-", "1", "1", "9", "0", "_", "A", "_", "S">>
  /\ extracted.transactions[2].key = Date1 \o <<"_", "5", "0", "_", "A", "_", "S">>

----------------------------------------------------------------------------
\* C24: every sibling Transaction of a combined-payment row has a row that
\* equals the source row in every column but the payment-method column and
\* the overwritten amount column; each sibling's row is an object of its own,
\* so a write to one sibling's row changes neither another sibling's row nor
\* the parsed row.
C24_SiblingsOwnTheirRows ==
  objects # Pending =>
    LET o      == objects
        row(k) == o.heap[o.siblings[k]]
        txs    == transactionsOfRecord(o.source)
    IN  /\ o.heap[o.parsed] = o.source
        /\ o.writes = 0 =>
             /\ Len(o.siblings) = Len(txs)
             /\ \A k \in 1..Len(o.siblings) :
                  /\ row(k) = txs[k].record
                  /\ \A c \in (DOMAIN o.source \cup DOMAIN row(k)) \ {ColMethod, ColOut} :
                       Get(row(k), c) = Get(o.source, c)
        /\ o.writes > 0 =>
             \A j \in 1..Len(o.siblings) :
               j # o.written => row(j) = o.before[o.siblings[j]]

\* a write to the first sibling's row that the second sibling's row and the
\* parsed row do not show
C24_Witness ==
  /\ objects # Pending
  /\ Len(objects.siblings) = 2
  /\ objects.written = 1
  /\ Get(objects.heap[objects.siblings[1]], ColPayee) = <<"w">>
  /\ Get(objects.heap[objects.siblings[2]], ColPayee) = Store
  /\ Get(objects.heap[objects.parsed], ColPayee) = Store

----------------------------------------------------------------------------
\* C25: in a loop that folds its rows' dates through updateDateRange from
\* (null, null), the running minimum never becomes later and the running
\* maximum never earlier, the two are both null or both dates, and the
\* minimum is not after the maximum.
C25_RangeOnlyWidens ==
  dateCall.fn = "fold" =>
    LET min  == dateCall.startDate
        max  == dateCall.endDate
        min0 == dateCall.before[1]
        max0 == dateCall.before[2]
    IN  /\ (min = Null) = (max = Null)
        /\ min # Null => min.time <= max.time
        /\ min0 # Null => (min # Null /\ min.time <= min0.time)
        /\ max0 # Null => (max # Null /\ max.time >= max0.time)

\* a loop whose last row moved the minimum of a range already set
C25_Witness ==
  /\ dateCall.fn = "fold"
  /\ dateCall.n >= 2
  /\ dateCall.before[1] # Null
  /\ dateCall.startDate.time < dateCall.before[1].time
  /\ dateCall.endDate = dateCall.before[2]
  /\ dateCall.startDate.time < dateCall.endDate.time

----------------------------------------------------------------------------
\* C26: a row whose date does not parse leaves the date range of its stage as
\* the other rows make it (in the Stats of the source text, in the Stats of
\* the aggregator texts and in its chunk), and is processed as any row: it is
\* counted in Stats.count, a source row with a usable amount and a payment
\* method yields its Transactions, and a row the filter keeps is a line of its
\* chunk.
C26_UnparseableDateOnlySkipsRange ==
  LET undated(r) == parseDate(Get(r, ColTxDate)) = Null
      \* the rows of rs whose flag in und is not set, in their order
      others(rs, und) ==
        LET is == SelectSeq(Tuple([i \in 1..Len(rs) |-> i]), LAMBDA i : ~und[i])
        IN  Tuple([j \in 1..Len(is) |-> rs[is[j]]])
      start == [i |-> 1, startDate |-> Null, endDate |-> Null]
  IN  /\ ExtractDone =>
           LET src == SourceRecords
               und == Tuple([i \in 1..Len(src) |-> undated(src[i])])
               txs == extracted.transactions
               row == Tuple([k \in 1..Len(txs) |-> SourceIndex(txs[k])])
           IN  /\ extracted.stats.count = Len(src)
               /\ (\E i \in 1..Len(src) : und[i]) =>
                    LET dated == others(src, und)
                        st    == extractLoop(dated, Len(dated),
                                             start @@ [transactions |-> <<>>])
                    IN  /\ extracted.stats.startDate = st.startDate
                        /\ extracted.stats.endDate = st.endDate
                        /\ \A i \in 1..Len(src) :
                             und[i] =>
                               LET own == {k \in 1..Len(txs) : row[k] = i}
                               IN  /\ Cardinality(own) = Len(transactionsOfRecord(src[i]))
                                   /\ (~NoMethod(src[i]) /\ ~NoUsableAmount(src[i]))
                                        => Cardinality(own) >= 1
      /\ ExclusionDone =>
           LET agg == AggregatorRecords
               und == Tuple([i \in 1..Len(agg) |->
                               parseDate(Get(agg[i], ColMfDate)) = Null])
               dated == others(agg, und)
               st  == mfmeRecordLoop(dated, Len(dated),
                                     start @@ [exclusionSet |-> {}, count |-> 0])
           IN  /\ exclusion.stats.count = Len(agg)
               /\ exclusion.stats.startDate = st.startDate
               /\ exclusion.stats.endDate = st.endDate
      /\ ChunkDone =>
           \A n \in DOMAIN chunks : \A c \in 1..Len(chunks[n]) :
             LET rows == slice(filtered.groupedRecords[n],
                               (c - 1) * chunkSize, c * chunkSize)
                 und  == Tuple([i \in 1..Len(rows) |-> undated(rows[i])])
                 data == chunks[n][c].data
             IN  /\ chunks[n][c].count = Len(rows)
                 /\ (\E i \in 1..Len(rows) : und[i]) =>
                      LET dated == others(rows, und)
                          st    == chunkDateLoop(dated, Len(dated), start)
                      IN  /\ chunks[n][c].startDate = st.startDate
                          /\ chunks[n][c].endDate = st.endDate
                          /\ \A k \in 1..Len(rows) :
                               und[k] =>
                                 \A h \in 1..Len(data.header) :
                                   data.lines[k][h] =
                                     (IF Get(rows[k], data.header[h]) = Undef THEN <<>>
                                      ELSE rows[k][data.header[h]])

\* a row with an unparseable date and a dated row in one chunk: both are
\* counted and serialized, and the ranges are those of the dated row
C26_Witness ==
  /\ ChunkDone
  /\ payPayCsv = PayPayText(<<Row(BadDate, Amt190, Dash, Store, MethodA), ExpenseRow>>)
  /\ extracted.stats = [count |-> 2, startDate |-> [time |-> BaseTime],
                        endDate |-> [time |-> BaseTime]]
  /\ Len(extracted.transactions) = 2
  /\ DOMAIN chunks = {MethodA}
  /\ chunks[MethodA][1].count = 2
  /\ chunks[MethodA][1].startDate = [time |-> BaseTime]
  /\ chunks[MethodA][1].data.lines[1][1] = BadDate

\* C27: when the user has selected a readable file with transactions and no
\* read is in flight any more, the data the parent holds and the statistics
\* shown are those of that file, the latest selection, whatever the order in
\* which the reads of earlier selections completed
C27_LatestSelectionWins ==
  (ui # Pending /\ ui.reads = {} /\ ui.payPayFile # Null) =>
    LET result == extractTransactionsFromPayPayCsv(ui.payPayFile.content)
    IN  (result # Threw /\ Len(result.transactions) > 0) =>
          /\ ui.data = result
          /\ ui.paypayStats = result.stats

\* C28: the header line of every chunk's text lists the columns of the source
\* text's header line, in that order, and every data line holds the fields of
\* its row in that same order of columns
C28_ChunkKeepsSourceColumns ==
  ChunkDone =>
    \A n \in DOMAIN chunks : \A c \in 1..Len(chunks[n]) :
      LET data == chunks[n][c].data
          read == parseText(Text(data))
      IN  /\ data.header = payPayCsv.header
          /\ read.header = payPayCsv.header
          /\ \A k \in 1..Len(data.lines) :
               LET row == filtered.groupedRecords[n][(c - 1) * chunkSize + k]
               IN  /\ Len(data.lines[k]) = Len(payPayCsv.header)
                   /\ \A h \in 1..Len(payPayCsv.header) :
                        data.lines[k][h] =
                          IF Get(row, payPayCsv.header[h]) = Undef THEN <<>>
                          ELSE row[payPayCsv.header[h]]

\* C29: the exclusion set is exactly the set of the strings
\* date_amount_institution_content of the rows, over all the texts, that have
\* a non-empty date, amount, institution and content and an inclusion flag
\* other than "0"; every row is counted, those without one of the four
\* fields too, and rows with the same key add it once.
C29_ExclusionSetIsTheKeysOfFullRows ==
  ExclusionDone =>
    LET agg     == AggregatorRecords
        has(r, col) == col \in DOMAIN r /\ r[col] # <<>>
        full(r) == /\ has(r, ColMfDate) /\ has(r, ColAmount)
                   /\ has(r, ColInst) /\ has(r, ColContent)
                   /\ ~(ColCalc \in DOMAIN r /\ r[ColCalc] = <<"0">>)
        keyOf(r) == r[ColMfDate] \o <<"_">> \o r[ColAmount] \o <<"_">>
                      \o r[ColInst] \o <<"_">> \o r[ColContent]
        rows    == {j \in 1..Len(agg) : full(agg[j])}
    IN  /\ exclusion.exclusionSet = {keyOf(agg[j]) : j \in rows}
        /\ exclusion.stats.count = Len(agg)
        /\ Cardinality(exclusion.exclusionSet) <= Cardinality(rows)

\* three rows counted, two of them with the same key, which is in the set
\* once, and one without content, which adds none
C29_Witness ==
  /\ ExclusionDone
  /\ exclusion.stats.count = 3
  /\ Cardinality(exclusion.exclusionSet) = 1
  /\ LET agg == AggregatorRecords
     IN  /\ agg[1] = agg[2]
         /\ Get(agg[1], ColContent) = Store
         /\ Get(agg[3], ColContent) = <<>>
         /\ Get(agg[3], ColAmount) = Neg190

\* C30: the tuples (date, signed amount, method or institution, counterparty
\* or content) of the Transactions and of the aggregator rows that add a key
\* never share a key unless they are the same tuple, and every Transaction
\* that filterTransactions dropped has an aggregator row that adds a key and
\* has the Transaction's tuple.
C30_KeysAreUnambiguous ==
  (ExtractDone /\ ExclusionDone) =>
    LET src == SourceRecords
        agg == AggregatorRecords
        txs == extracted.transactions
        tupleOf(tx) ==
          LET s == src[SourceIndex(tx)]
          IN  <<IF Get(s, ColTxDate) = Undef THEN Undef
                ELSE SplitFirst(s[ColTxDate], " "),
                SignedAmount(tx, s), tx.paymentMethod, Get(s, ColPayee)>>
        tupleOfRow(r) ==
          <<Get(r, ColMfDate), Get(r, ColAmount), Get(r, ColInst),
            Get(r, ColContent)>>
        tuples == Tuple([k \in 1..Len(txs) |-> tupleOf(txs[k])])
        keyed  == {j \in 1..Len(agg) : Included(agg[j])}
        pairs  == {<<tuples[k], txs[k].key>> : k \in 1..Len(txs)}
                    \cup {<<tupleOfRow(agg[j]), RowKey(agg[j])>> : j \in keyed}
    IN  /\ Cardinality(pairs) = Cardinality({p[2] : p \in pairs})
        /\ FilterReturned =>
             \A k \in 1..Len(txs) :
               Dropped(txs[k]) =>
                 \E j \in keyed : tupleOfRow(agg[j]) = tuples[k]

====
